---- MODULE Spec2Model ----
(***************************************************************************)
(* Report generation of historai-pdf-service: one invocation of the report *)
(* orchestrator (generateConversationReport) driving the conversion        *)
(* pipeline (generatePdfFromHtml) and then the optimization pipeline       *)
(* (optimizePdf) against the remote document service.                      *)
(*                                                                         *)
(* Two orchestrators exist in the repository and both are modelled:        *)
(*   variant = "plugin"  : pdfReportService.generateConversationReport     *)
(*                         (TypeScript plugin), called as a library;       *)
(*   variant = "service" : FoxitPdfService.generateConversationReport      *)
(*                         behind POST /api/generate-report (app.js).      *)
(* The pipeline clients of the two variants run the same four steps        *)
(* (upload, trigger, poll loop, download) and differ in their message      *)
(* prefix only, so one set of pipeline actions serves both.                *)
(*                                                                         *)
(* The remote service is the environment: every response body, transport   *)
(* failure and poll latency is chosen nondeterministically.                *)
(***************************************************************************)
EXTENDS Integers, Sequences, FiniteSets, TLC

\* ------------------------------------------------------------------ bounds

\* Longest byte payload the remote serves on download.
MaxBytesLen == 2
\* Number of distinct non-empty identifier strings the remote hands out.
NumIds == 2
\* A poll round-trip takes k/LatencySteps of the per-call timeout, k = 0..LatencySteps.
LatencySteps == 1

\* ------------------------------------------------------- program constants

POLL_INTERVAL_MS == 3000
POLL_TIMEOUT_MS == 120000
\* axios per-call timeout of the poll request
POLL_REQUEST_TIMEOUT_MS == 15000

\* ------------------------------------------------------------------ values

None == [t |-> "none"]

\* JavaScript values found in the fields of a response body.
Undefined == [t |-> "undefined"]
Str(s) == [t |-> "string", s |-> s]

IdNames == <<"id-1", "id-2", "id-3", "id-4">>
IdStrings == {Str(IdNames[n]) : n \in 1..NumIds}
FieldValues == {Undefined, Str("")} \cup IdStrings

\* !x is false
Truthy(x) == x.t = "string" /\ x.s # ""
\* x is null or undefined
Nullish(x) == x.t \in {"undefined", "null"}
\* a ?? b
Coalesce(a, b) == IF Nullish(a) THEN b ELSE a
\* o?.f : undefined when o is nullish or has no such property
Get(o, f) == IF o.t = "object" /\ f \in DOMAIN o THEN o[f] ELSE Undefined

\* A 2xx response whose JSON body is the literal null.
NullBody == [t |-> "null"]

UploadBodies ==
  {NullBody} \cup
  [t : {"object"}, documentId : FieldValues, id : FieldValues,
   data : {Undefined} \cup [t : {"object"}, documentId : FieldValues]]

TriggerBodies ==
  {NullBody} \cup
  [t : {"object"}, taskId : FieldValues, id : FieldValues,
   data : {Undefined} \cup [t : {"object"}, taskId : FieldValues]]

Statuses == {Undefined, Str("PENDING"), Str("RUNNING"), Str("COMPLETED"),
             Str("FAILED"), Str("completed")}

PollBodies ==
  {NullBody} \cup
  [t : {"object"}, status : Statuses, resultDocumentId : FieldValues]

Buf(n) == [t |-> "buffer", bytes |-> [i \in 1..n |-> i]]
Buffers == {Buf(n) : n \in 1..MaxBytesLen}

PollLatencies ==
  {(k * POLL_REQUEST_TIMEOUT_MS) \div LatencySteps : k \in 0..LatencySteps}

Pipes == {"conversion", "optimization"}
Variants == {"plugin", "service"}

\* ------------------------------------------------------------------ errors

\* Message prefix of a pipeline client.
Prefix(v, p) ==
  IF v = "service"
  THEN (IF p = "conversion" THEN "[FoxitDocGenClient]" ELSE "[FoxitPdfServicesClient]")
  ELSE (IF p = "conversion" THEN "[FoxitDocGen]" ELSE "[FoxitPdfServices]")

\* new Error(`${prefix} <step marker> ...: ${detail}`)
PipelineError(prefix, step, kind, detail) ==
  [t |-> "Error", prefix |-> prefix, step |-> step, kind |-> kind, detail |-> detail]

\* The TypeError of destructuring a null response body.
DestructureError ==
  [t |-> "TypeError", prefix |-> "", step |-> "", kind |-> "type_error", detail |-> None]

OrchPrefix(v) == IF v = "service" THEN "[FoxitPdfService]" ELSE "[PdfReport]"

\* new Error(`${prefix} ${what}: ${err.message}`)
OrchError(v, what, cause) ==
  [t |-> "Error", prefix |-> OrchPrefix(v), what |-> what, cause |-> cause]

\* new Error(`Failed to read HTML template: ...`): the service's message starts
\* with its prefix, the plugin's does not
TemplateReadError(v) ==
  [t |-> "Error", prefix |-> (IF v = "service" THEN OrchPrefix(v) ELSE ""),
   what |-> "Failed to read HTML template", cause |-> None]

\* The TypeError interpolate throws: it leaves generateConversationReport as it is.
InterpolateTypeError == [t |-> "TypeError", prefix |-> "", what |-> "", cause |-> None]

Resolved(value) == [t |-> "resolved", value |-> value]
Rejected(error) == [t |-> "rejected", error |-> error]

\* ------------------------------------------------------- identifier lookup

\* Mutant of ExtractDocumentId: the nested data.documentId shape is not looked at.
ExtractDocumentId_TopLevelOnly(data) ==
  Coalesce(Get(data, "documentId"), Get(data, "id"))

\* res.data?.documentId ?? res.data?.id ?? res.data?.data?.documentId
ExtractDocumentId(data) ==
  Coalesce(Coalesce(Get(data, "documentId"), Get(data, "id")),
           Get(Get(data, "data"), "documentId"))

\* res.data?.taskId ?? res.data?.id ?? res.data?.data?.taskId
ExtractTaskId(data) ==
  Coalesce(Coalesce(Get(data, "taskId"), Get(data, "id")),
           Get(Get(data, "data"), "taskId"))

\* Mutant of Deadline: the poll interval is taken for the timeout.
Deadline_Interval(t) == t + POLL_INTERVAL_MS

\* const deadline = Date.now() + POLL_TIMEOUT_MS
Deadline(t) == t + POLL_TIMEOUT_MS

\* Mutant of LoopCond: the loop is entered once more at the deadline itself.
LoopCond_Inclusive(t, d) == t <= d

\* while (Date.now() < deadline)
LoopCond(t, d) == t < d

\* ------------------------------------------------------------ configuration

\* A string of process.env or of a module binding, as its sequence of characters.
Text(chars) == [t |-> "text", chars |-> chars]

\* !x is false, for a configuration value
TruthyText(x) == x.t = "text" /\ Len(x.chars) > 0

\* x || ""
OrEmpty(x) == IF TruthyText(x) THEN x ELSE Text(<<>>)

\* What a configuration variable may hold: unset, empty, a value, a value ending in "/".
EnvValues == {Undefined, Text(<<>>), Text(<<"u">>), Text(<<"u", "/">>)}

\* ... and for the base URL also a value ending in "//"
BaseUrlValues == EnvValues \cup {Text(<<"u", "/", "/">>)}

Envs == [BASE_URL : BaseUrlValues, CLIENT_ID : EnvValues, CLIENT_SECRET : EnvValues]

\* Mutant of StripTrailingSlash: the configured string is used as it is.
StripTrailingSlash_Keeps(chars) == chars

\* s.replace(/\/$/, '')
StripTrailingSlash(chars) ==
  IF Len(chars) > 0 /\ chars[Len(chars)] = "/"
  THEN SubSeq(chars, 1, Len(chars) - 1)
  ELSE chars

\* const BASE = ...; const AUTH_HEADERS = {...}; const POLL_INTERVAL_MS, POLL_TIMEOUT_MS:
\* what the module of a pipeline client binds at load time from configuration e.
Bind(e) ==
  [BASE |-> Text(StripTrailingSlash(e.BASE_URL.chars)),
   AUTH_HEADERS |-> [client_id |-> e.CLIENT_ID, client_secret |-> e.CLIENT_SECRET],
   POLL_INTERVAL_MS |-> POLL_INTERVAL_MS, POLL_TIMEOUT_MS |-> POLL_TIMEOUT_MS]

\* a complete configuration
ValidEnv ==
  [BASE_URL |-> Text(<<"u", "/">>), CLIENT_ID |-> Text(<<"u">>),
   CLIENT_SECRET |-> Text(<<"u">>)]

\* The bindings of a client loaded with a complete configuration.
ModuleBindings == Bind(ValidEnv)


\* ------------------------------------------------------ template rendering
\*
\* Strings are the sequences of their characters (Text); a ReportData record
\* and its fields are JavaScript values.

JsNull == [t |-> "null"]
\* an object with the one own property f (which may hold undefined)
Obj(v) == [t |-> "object", f |-> v]
\* an array with the given elements
Arr(items) == [t |-> "array", items |-> items]

\* \w and \d, over the characters that occur
WordChars == {"a", "l", "f", "0", "1"}
DigitChars == {"0", "1"}

\* s[i], or the empty string beyond the ends of s
At(s, i) == IF i \in 1..Len(s) THEN s[i] ELSE ""

RECURSIVE RunEnd(_, _, _)
\* the position after the longest run of characters of `set` that starts at p
RunEnd(s, p, set) ==
  IF p <= Len(s) /\ s[p] \in set THEN RunEnd(s, p + 1, set) ELSE p

NoMatch == [ok |-> FALSE, name |-> <<>>, index |-> <<>>, field |-> <<>>, end |-> 0]

\* /\{\{(\w+)\[(\d+)\]\.(\w+)\}\}/ matched at position p
MatchIndexedField(s, p) ==
  LET a == RunEnd(s, p + 2, WordChars)
      b == RunEnd(s, a + 1, DigitChars)
      c == RunEnd(s, b + 2, WordChars)
  IN IF /\ At(s, p) = "{" /\ At(s, p + 1) = "{"
        /\ a > p + 2 /\ At(s, a) = "["
        /\ b > a + 1 /\ At(s, b) = "]" /\ At(s, b + 1) = "."
        /\ c > b + 2 /\ At(s, c) = "}" /\ At(s, c + 1) = "}"
     THEN [ok |-> TRUE, name |-> SubSeq(s, p + 2, a - 1),
           index |-> SubSeq(s, a + 1, b - 1), field |-> SubSeq(s, b + 2, c - 1),
           end |-> c + 2]
     ELSE NoMatch

\* /\{\{(\w+)\[(\d+)\]\}\}/ matched at position p
MatchIndexed(s, p) ==
  LET a == RunEnd(s, p + 2, WordChars)
      b == RunEnd(s, a + 1, DigitChars)
  IN IF /\ At(s, p) = "{" /\ At(s, p + 1) = "{"
        /\ a > p + 2 /\ At(s, a) = "["
        /\ b > a + 1 /\ At(s, b) = "]"
        /\ At(s, b + 1) = "}" /\ At(s, b + 2) = "}"
     THEN [ok |-> TRUE, name |-> SubSeq(s, p + 2, a - 1),
           index |-> SubSeq(s, a + 1, b - 1), field |-> <<>>, end |-> b + 3]
     ELSE NoMatch

\* /\{\{(\w+)\}\}/ matched at position p
MatchScalar(s, p) ==
  LET a == RunEnd(s, p + 2, WordChars)
  IN IF /\ At(s, p) = "{" /\ At(s, p + 1) = "{"
        /\ a > p + 2 /\ At(s, a) = "}" /\ At(s, a + 1) = "}"
     THEN [ok |-> TRUE, name |-> SubSeq(s, p + 2, a - 1),
           index |-> <<>>, field |-> <<>>, end |-> a + 2]
     ELSE NoMatch

Match(pass, s, p) ==
  CASE pass = 1 -> MatchIndexedField(s, p)
    [] pass = 2 -> MatchIndexed(s, p)
    [] OTHER -> MatchScalar(s, p)

\* the array index a property name of digits denotes: "0" and "1" are canonical
\* indices; a name with a leading zero is no index, and any other lies beyond
\* the lists that occur
IndexOf(digits) ==
  IF digits = <<"0">> THEN 0 ELSE IF digits = <<"1">> THEN 1 ELSE -1

\* data[key]: the own property, or undefined
Lookup(d, key) ==
  IF Len(key) = 1 /\ key[1] \in DOMAIN d THEN d[key[1]] ELSE Undefined

\* arr[index]
Elem(arr, index) ==
  LET i == IndexOf(index)
  IN IF i >= 0 /\ i < Len(arr.items) THEN arr.items[i + 1] ELSE Undefined

\* v[field], for v neither null nor undefined
Prop(v, field) ==
  CASE v.t = "object" -> IF field = <<"f">> THEN v.f ELSE Undefined
    [] v.t = "text" ->
         LET i == IndexOf(field)
         IN IF i >= 0 /\ i < Len(v.chars) THEN Text(<<v.chars[i + 1]>>) ELSE Undefined
    [] v.t = "array" -> Elem(v, field)
    [] OTHER -> Undefined

ObjectObject ==
  <<"[", "o", "b", "j", "e", "c", "t", " ", "O", "b", "j", "e", "c", "t", "]">>

\* String(v) of a list element
ElemToString(v) ==
  CASE v.t = "text" -> v.chars
    [] v.t = "null" -> <<>>
    [] v.t = "undefined" -> <<>>
    [] OTHER -> ObjectObject

RECURSIVE Join(_)
\* items.join(",")
Join(items) ==
  IF items = <<>> THEN <<>>
  ELSE IF Len(items) = 1 THEN ElemToString(items[1])
  ELSE ElemToString(items[1]) \o <<",">> \o Join(Tail(items))

\* String(v): what String.prototype.replace inserts for a callback result v
JsString(v) ==
  CASE v.t = "text" -> v.chars
    [] v.t = "null" -> <<"n", "u", "l", "l">>
    [] v.t = "array" -> Join(v.items)
    [] OTHER -> ObjectObject

Returns(chars) == [ok |-> TRUE, out |-> chars]
\* TypeError: Cannot read properties of null
Throws == [ok |-> FALSE, out |-> <<>>]

\* the callback of the first replace:
\*   const arr = data[arrayName];
\*   if (Array.isArray(arr) && arr[index] !== undefined)
\*     return arr[index][field] !== undefined ? arr[index][field] : "";
\*   return "";
ReplaceIndexedField(m, d) ==
  LET arr == Lookup(d, m.name)
  IN IF arr.t = "array" /\ Elem(arr, m.index) # Undefined
     THEN LET e == Elem(arr, m.index)
          IN IF e.t = "null" THEN Throws
             ELSE IF Prop(e, m.field) # Undefined
                  THEN Returns(JsString(Prop(e, m.field)))
                  ELSE Returns(<<>>)
     ELSE Returns(<<>>)

\* the callback of the second replace:
\*   if (Array.isArray(arr) && arr[index] !== undefined) return arr[index]; return "";
ReplaceIndexed(m, d) ==
  LET arr == Lookup(d, m.name)
  IN IF arr.t = "array" /\ Elem(arr, m.index) # Undefined
     THEN Returns(JsString(Elem(arr, m.index)))
     ELSE Returns(<<>>)

\* the callback of the third replace: data[key] !== undefined ? data[key] : ""
ReplaceScalar(m, d) ==
  IF Lookup(d, m.name) # Undefined
  THEN Returns(JsString(Lookup(d, m.name)))
  ELSE Returns(<<>>)

Callback(pass, m, d) ==
  CASE pass = 1 -> ReplaceIndexedField(m, d)
    [] pass = 2 -> ReplaceIndexed(m, d)
    [] OTHER -> ReplaceScalar(m, d)

RECURSIVE ReplaceFrom(_, _, _, _)
\* s.replace(regex /g, callback), from position p on: matches are taken leftmost
\* first and do not overlap; what a callback returns is not scanned again
ReplaceFrom(pass, s, p, d) ==
  IF p > Len(s) THEN Returns(<<>>)
  ELSE LET m == Match(pass, s, p)
       IN IF m.ok
          THEN LET r == Callback(pass, m, d)
               IN IF ~r.ok THEN Throws
                  ELSE LET rest == ReplaceFrom(pass, s, m.end, d)
                       IN IF rest.ok THEN Returns(r.out \o rest.out) ELSE Throws
          ELSE LET rest == ReplaceFrom(pass, s, p + 1, d)
               IN IF rest.ok THEN Returns(<<s[p]>> \o rest.out) ELSE Throws

\* one of the three template.replace / result.replace calls
ReplacePass(pass, s, d) == ReplaceFrom(pass, s, 1, d)

\* Mutant of Interpolate: the bare indexed tokens {{list[i]}} are not replaced.
Interpolate_SkipsIndexed(tpl, d) ==
  LET r1 == ReplacePass(1, tpl, d)
  IN IF ~r1.ok THEN Throws ELSE ReplacePass(3, r1.out, d)

\* function interpolate(template, data): the three replaces, in order
Interpolate(tpl, d) ==
  LET r1 == ReplacePass(1, tpl, d)
  IN IF ~r1.ok THEN Throws
     ELSE LET r2 == ReplacePass(2, r1.out, d)
          IN IF ~r2.ok THEN Throws ELSE ReplacePass(3, r2.out, d)

\* The content of templates/conversation-report.html: a scalar token, text, and a
\* token for a field of a list element.
TemplateFile ==
  <<"{", "{", "a", "}", "}", " ", "{", "{", "l", "[", "0", "]", ".", "f", "}", "}">>

\* The records a report is generated from: one whose list holds an entry, and
\* one whose list holds null.
SpecDatas ==
  {[a |-> Text(<<"a">>), l |-> Arr(<<Obj(Text(<<"f">>))>>)],
   [a |-> Text(<<"a">>), l |-> Arr(<<JsNull>>)]}

\* const { ..., characterName, ... } = req.body: absent, empty, or a name
SomeName == Str("n")
CharacterNames == {Undefined, Str(""), SomeName}

\* ------------------------------------------------------------------- state

VARIABLES
  variant,    \* which orchestrator runs
  characterName, \* service: the characterName field of the request body
  pc,         \* position of the invocation
  pipe,       \* the pipeline that runs (or ran last), None before the first
  filledHtml, \* orchestrator local: the interpolated template
  initialPdf, \* orchestrator local: the conversion pipeline's result
  input,      \* pipeline parameter: html or pdfBuffer
  req,        \* the remote request in flight
  res,        \* step local: the response body received
  docId,      \* documentId
  taskId,     \* taskId
  resultId,   \* resultDocumentId
  now,        \* Date.now(), in ms since the running pipeline was entered
  deadline,   \* pollTask local
  ret,        \* the pipeline's return value
  exc,        \* the exception propagating out of the pipeline
  outcome,    \* settlement of generateConversationReport's promise
  warning,    \* what console.warn logged in the plugin's stage-2 catch
  response,   \* the HTTP response sent (service)
  trace,      \* history: remote calls and sleeps of the running pipeline, in order
  endpoints,  \* history: every <<pipe, step>> endpoint called by this invocation
  served,     \* history: the bytes the remote served on each pipeline's download
  pollSeen,   \* history: the kinds of poll results seen by the running pollTask
  runs,       \* concurrent view: the locals of each pipeline invocation in progress
  nextHandle, \* concurrent view: the number of handles the remote has handed out
  timers,     \* concurrent view: the pending setTimeout callbacks, in firing order
  moduleState,\* the module-level bindings of the pipeline client
  env,        \* process.env: the three configuration values of the pipeline client
  template,   \* orchestrator local: the template file's content
  data,       \* the ReportData record handed to generateConversationReport
  again,      \* the result of interpolating filledHtml once more
  server      \* the server process of app.js: what it logged, its exit status, listening

vars == <<variant, characterName, pc, pipe, filledHtml, initialPdf, input, req, res,
          docId, taskId, resultId, now, deadline, ret, exc, outcome, warning,
          response, trace, endpoints, served, pollSeen, runs, nextHandle, timers, moduleState, env,
          template, data, again, server>>

\* The state of the concurrent view: fixed while one invocation is followed alone.
concVars == <<runs, nextHandle, timers, moduleState, env>>

orchVars == <<variant, characterName, filledHtml, initialPdf, outcome, warning, response,
              runs, nextHandle, timers, moduleState, env, template, data, again, server>>
pipeLocals == <<input, docId, taskId, resultId, deadline, ret>>
history == <<endpoints, served, pollSeen>>

Init ==
  /\ variant \in Variants
  /\ characterName \in (IF variant = "service" THEN CharacterNames ELSE {SomeName})
  /\ pc = (IF variant = "service" THEN "request" ELSE "render")
  /\ pipe = "none"
  /\ filledHtml = None
  /\ initialPdf = None
  /\ input = None
  /\ req = None
  /\ res = None
  /\ docId = Undefined
  /\ taskId = Undefined
  /\ resultId = Undefined
  /\ now = 0
  /\ deadline = 0
  /\ ret = None
  /\ exc = None
  /\ outcome = None
  /\ warning = None
  /\ response = None
  /\ trace = <<>>
  /\ endpoints = {}
  /\ served = [p \in Pipes |-> None]
  /\ pollSeen = {}
  /\ runs = <<>>
  /\ nextHandle = 0
  /\ timers = <<>>
  /\ moduleState = ModuleBindings
  /\ env = ValidEnv
  /\ template = None
  /\ data \in (IF variant = "service" THEN {None} ELSE SpecDatas)
  /\ again = None
  /\ server = None

\* ----------------------------------------------------- HTTP handler (app.js)

\* Mutant of HandleRequest: the report data is extracted before the validation.
HandleRequest_ExtractsFirst ==
  /\ pc = "request"
  /\ data' \in SpecDatas
  /\ IF ~Truthy(characterName)
     THEN /\ response' = [t |-> "json", status |-> 400, error |-> [t |-> "validation"]]
          /\ pc' = "responded"
     ELSE /\ pc' = "render"
          /\ UNCHANGED response
  /\ UNCHANGED <<server, template, again, runs, nextHandle, timers, moduleState, env, variant, characterName, pipe, filledHtml, initialPdf, req, res, now,
                 exc, outcome, warning, trace>>
  /\ UNCHANGED pipeLocals
  /\ UNCHANGED history

\* app.post('/api/generate-report'): if (!characterName) return res.status(400).json(...);
\* otherwise extractReportData (a stub that always resolves) and the merge of the
\* session fields give the data handed to generateConversationReport.
HandleRequest ==
  /\ pc = "request"
  /\ IF ~Truthy(characterName)
     THEN /\ response' = [t |-> "json", status |-> 400, error |-> [t |-> "validation"]]
          /\ pc' = "responded"
          /\ UNCHANGED data
     ELSE /\ data' \in SpecDatas
          /\ pc' = "render"
          /\ UNCHANGED response
  /\ UNCHANGED <<server, template, again, runs, nextHandle, timers, moduleState, env, variant, characterName, pipe, filledHtml, initialPdf, req, res, now,
                 exc, outcome, warning, trace>>
  /\ UNCHANGED pipeLocals
  /\ UNCHANGED history

\* Mutant of SendPdf: the conversion bytes are sent instead of the orchestrator's result.
SendPdf_SendsConversionBytes ==
  /\ variant = "service"
  /\ pc = "resolved"
  /\ response' = [t |-> "pdf", status |-> 200, body |-> initialPdf]
  /\ pc' = "responded"
  /\ UNCHANGED <<server, template, data, again, runs, nextHandle, timers, moduleState, env, variant, characterName, pipe, filledHtml, initialPdf, req, res, now,
                 exc, outcome, warning, trace>>
  /\ UNCHANGED pipeLocals
  /\ UNCHANGED history

\* res.set({...'application/pdf'...}); return res.end(pdfBuffer)
SendPdf ==
  /\ variant = "service"
  /\ pc = "resolved"
  /\ response' = [t |-> "pdf", status |-> 200, body |-> outcome.value]
  /\ pc' = "responded"
  /\ UNCHANGED <<server, template, data, again, runs, nextHandle, timers, moduleState, env, variant, characterName, pipe, filledHtml, initialPdf, req, res, now,
                 exc, outcome, warning, trace>>
  /\ UNCHANGED pipeLocals
  /\ UNCHANGED history

\* catch (err) { return res.status(500).json({ error: err.message }) }
SendError ==
  /\ variant = "service"
  /\ pc = "rejected"
  /\ response' = [t |-> "json", status |-> 500, error |-> outcome.error]
  /\ pc' = "responded"
  /\ UNCHANGED <<server, template, data, again, runs, nextHandle, timers, moduleState, env, variant, characterName, pipe, filledHtml, initialPdf, req, res, now,
                 exc, outcome, warning, trace>>
  /\ UNCHANGED pipeLocals
  /\ UNCHANGED history

\* ------------------------------------------------------------ orchestrator

\* try { template = fs.readFileSync(TEMPLATE_PATH, "utf-8") } catch (err) { throw ... }
\* const filledHtml = interpolate(template, data)   (outside every try block)
Render ==
  /\ pc = "render"
  /\ \/ /\ outcome' = Rejected(TemplateReadError(variant))
        /\ pc' = "rejected"
        /\ UNCHANGED <<filledHtml, template>>
     \/ /\ template' = Text(TemplateFile)
        /\ LET r == Interpolate(TemplateFile, data)
           IN IF r.ok
              THEN /\ filledHtml' = Text(r.out)
                   /\ pc' = "stage1"
                   /\ UNCHANGED outcome
              ELSE /\ outcome' = Rejected(InterpolateTypeError)
                   /\ pc' = "rejected"
                   /\ UNCHANGED filledHtml
  /\ UNCHANGED <<server, data, again, runs, nextHandle, timers, moduleState, env, variant, characterName, pipe, initialPdf, req, res, now, exc, warning,
                 response, trace>>
  /\ UNCHANGED pipeLocals
  /\ UNCHANGED history

\* Entry of generatePdfFromHtml / optimizePdf: fresh locals, fresh history.
EnterPipeline(p, payload) ==
  /\ pipe' = p
  /\ input' = payload
  /\ pc' = "upload"
  /\ req' = None
  /\ res' = None
  /\ docId' = Undefined
  /\ taskId' = Undefined
  /\ resultId' = Undefined
  /\ now' = 0
  /\ deadline' = 0
  /\ ret' = None
  /\ exc' = None
  /\ trace' = <<>>
  /\ pollSeen' = {}
  /\ UNCHANGED <<endpoints, served>>

\* The pipeline function has returned or thrown: its locals are gone, and the
\* history of the run ends with it.
ExitPipeline ==
  /\ input' = None
  /\ req' = None
  /\ res' = None
  /\ docId' = Undefined
  /\ taskId' = Undefined
  /\ resultId' = Undefined
  /\ now' = 0
  /\ deadline' = 0
  /\ ret' = None
  /\ exc' = None
  /\ trace' = <<>>
  /\ pollSeen' = {}
  /\ UNCHANGED <<pipe, endpoints, served>>

\* initialPdf = await generatePdfFromHtml(filledHtml)   (the call)
Stage1Call ==
  /\ pc = "stage1"
  /\ EnterPipeline("conversion", filledHtml)
  /\ UNCHANGED orchVars

\* ... the await resolves: initialPdf is assigned
Stage1Return ==
  /\ pc = "returned"
  /\ pipe = "conversion"
  /\ initialPdf' = ret
  /\ pc' = "stage2"
  /\ ExitPipeline
  /\ UNCHANGED <<server, template, data, again, runs, nextHandle, timers, moduleState, env, variant, characterName, filledHtml, outcome, warning, response>>

\* Mutant of Stage1Catch: the failure is swallowed and stage 2 runs anyway.
Stage1Catch_FallsThrough ==
  /\ pc = "raised"
  /\ pipe = "conversion"
  /\ pc' = "stage2"
  /\ ExitPipeline
  /\ UNCHANGED <<server, template, data, again, runs, nextHandle, timers, moduleState, env, variant, characterName, filledHtml, initialPdf, outcome, warning, response>>

\* Mutant of Stage1Catch: the pipeline's message is left out of the new error.
Stage1Catch_DropsMessage ==
  /\ pc = "raised"
  /\ pipe = "conversion"
  /\ outcome' = Rejected(OrchError(variant, "Stage 1 failed", None))
  /\ pc' = "rejected"
  /\ ExitPipeline
  /\ UNCHANGED <<server, template, data, again, runs, nextHandle, timers, moduleState, env, variant, characterName, filledHtml, initialPdf, warning, response>>

\* Mutant of Stage1Catch: a failed conversion is started again.
Stage1Catch_Retries ==
  /\ pc = "raised"
  /\ pipe = "conversion"
  /\ pc' = "stage1"
  /\ ExitPipeline
  /\ UNCHANGED <<server, template, data, again, runs, nextHandle, timers, moduleState, env, variant, characterName, filledHtml, initialPdf, outcome, warning, response>>

\* catch (err) { throw new Error(`... Stage 1 failed: ${err.message}`) }
Stage1Catch ==
  /\ pc = "raised"
  /\ pipe = "conversion"
  /\ outcome' = Rejected(OrchError(variant, "Stage 1 failed", exc))
  /\ pc' = "rejected"
  /\ ExitPipeline
  /\ UNCHANGED <<server, template, data, again, runs, nextHandle, timers, moduleState, env, variant, characterName, filledHtml, initialPdf, warning, response>>

\* Mutant of Stage2Call: the rendered html is handed to the optimization pipeline.
Stage2Call_UploadsHtml ==
  /\ pc = "stage2"
  /\ EnterPipeline("optimization", filledHtml)
  /\ UNCHANGED orchVars

\* await optimizePdf(initialPdf)   (the call)
Stage2Call ==
  /\ pc = "stage2"
  /\ EnterPipeline("optimization", initialPdf)
  /\ UNCHANGED orchVars

\* Mutant of Stage2Return: the smaller of the two payloads is returned.
Stage2Return_KeepsSmaller ==
  /\ pc = "returned"
  /\ pipe = "optimization"
  /\ outcome' = Resolved(IF Len(ret.bytes) < Len(initialPdf.bytes) THEN ret ELSE initialPdf)
  /\ pc' = "resolved"
  /\ ExitPipeline
  /\ UNCHANGED <<server, template, data, again, runs, nextHandle, timers, moduleState, env, variant, characterName, filledHtml, initialPdf, warning, response>>

\* ... the await resolves: the optimized buffer is returned
Stage2Return ==
  /\ pc = "returned"
  /\ pipe = "optimization"
  /\ outcome' = Resolved(ret)
  /\ pc' = "resolved"
  /\ ExitPipeline
  /\ UNCHANGED <<server, template, data, again, runs, nextHandle, timers, moduleState, env, variant, characterName, filledHtml, initialPdf, warning, response>>

\* Mutant of PluginStage2Catch: the failure is rethrown, as in stage 1.
PluginStage2Catch_Rethrows ==
  /\ variant = "plugin"
  /\ pc = "raised"
  /\ pipe = "optimization"
  /\ outcome' = Rejected(OrchError(variant, "Stage 2 failed", exc))
  /\ pc' = "rejected"
  /\ ExitPipeline
  /\ UNCHANGED <<server, template, data, again, runs, nextHandle, timers, moduleState, env, variant, characterName, filledHtml, initialPdf, warning, response>>

\* plugin: catch (err) { console.warn(...); finalPdf = initialPdf } ... return finalPdf
PluginStage2Catch ==
  /\ variant = "plugin"
  /\ pc = "raised"
  /\ pipe = "optimization"
  /\ warning' = exc
  /\ outcome' = Resolved(initialPdf)
  /\ pc' = "resolved"
  /\ ExitPipeline
  /\ UNCHANGED <<server, template, data, again, runs, nextHandle, timers, moduleState, env, variant, characterName, filledHtml, initialPdf, response>>

\* service: catch (err) { throw new Error(`... Stage 2 failed: ${err.message}`) }
ServiceStage2Catch ==
  /\ variant = "service"
  /\ pc = "raised"
  /\ pipe = "optimization"
  /\ outcome' = Rejected(OrchError(variant, "Stage 2 failed", exc))
  /\ pc' = "rejected"
  /\ ExitPipeline
  /\ UNCHANGED <<server, template, data, again, runs, nextHandle, timers, moduleState, env, variant, characterName, filledHtml, initialPdf, warning, response>>

\* ------------------------------------------------- pipeline: shared pieces

\* What no pipeline step touches.
pipeFrame == <<variant, characterName, pipe, filledHtml, initialPdf, input, outcome,
               warning, response, runs, nextHandle, timers, moduleState, env,
               template, data, again, server>>

InPipeline == pipe \in Pipes

\* `${id}` inside a template literal
IdText(v) == IF v.t = "string" THEN v.s ELSE v.t

\* the path of a step's endpoint, by segment
Path(p, step, arg) ==
  CASE step = "upload" -> <<"documents", "upload">>
    [] step = "trigger" ->
         IF p = "conversion" THEN <<"documents", "create", "pdf-from-html">>
         ELSE <<"documents", "modify", "pdf-compress">>
    [] step = "poll" -> <<"tasks", IdText(arg)>>
    [] OTHER -> <<"documents", IdText(arg), "download">>

RECURSIVE Slashed(_)
\* "/seg1/seg2/..."
Slashed(segments) ==
  IF segments = <<>> THEN <<>>
  ELSE <<"/", Head(segments)>> \o Slashed(Tail(segments))

\* const endpoint = `${BASE}/...`
Endpoint(base, p, step, arg) == base.chars \o Slashed(Path(p, step, arg))

\* axios.post / axios.get is issued.
Call(step, arg) ==
  /\ req' = [t |-> "request", pipe |-> pipe, step |-> step, arg |-> arg,
             url |-> Endpoint(moduleState.BASE, pipe, step, arg)]
  /\ trace' = Append(trace, step)
  /\ endpoints' = endpoints \cup {<<pipe, step>>}

\* throw e
Raise(e) ==
  /\ exc' = e
  /\ pc' = "raised"

\* --------------------------------------------------------- step 1: upload

\* res = await axios.post(`${BASE}/documents/upload`, form, ...)   (the call)
UploadCall ==
  /\ InPipeline
  /\ pc = "upload"
  /\ Call("upload", input)
  /\ pc' = "upload_wait"
  /\ UNCHANGED <<res, docId, taskId, resultId, now, deadline, ret, exc, served, pollSeen>>
  /\ UNCHANGED pipeFrame

\* catch (err) { throw new Error(`... Upload failed ...`) }
UploadFail ==
  /\ pc = "upload_wait"
  /\ req' = None
  /\ Raise(PipelineError(Prefix(variant, pipe), "upload", "transport", None))
  /\ UNCHANGED <<res, docId, taskId, resultId, now, deadline, ret, trace>>
  /\ UNCHANGED history
  /\ UNCHANGED pipeFrame

\* the upload answers 2xx with some body
UploadRespond ==
  /\ pc = "upload_wait"
  /\ \E body \in UploadBodies : res' = body
  /\ req' = None
  /\ pc' = "upload_got"
  /\ UNCHANGED <<docId, taskId, resultId, now, deadline, ret, exc, trace>>
  /\ UNCHANGED history
  /\ UNCHANGED pipeFrame

\* const documentId = res.data?.documentId ?? res.data?.id ?? res.data?.data?.documentId
UploadExtract ==
  /\ pc = "upload_got"
  /\ docId' = ExtractDocumentId(res)
  /\ pc' = "upload_id"
  /\ UNCHANGED <<req, res, taskId, resultId, now, deadline, ret, exc, trace>>
  /\ UNCHANGED history
  /\ UNCHANGED pipeFrame

\* Mutant of UploadCheck: the identifier is returned unchecked.
UploadCheck_Unchecked ==
  /\ pc = "upload_id"
  /\ pc' = "trigger"
  /\ res' = None
  /\ UNCHANGED <<req, docId, taskId, resultId, now, deadline, ret, exc, trace>>
  /\ UNCHANGED history
  /\ UNCHANGED pipeFrame

\* if (!documentId) throw ...; return documentId
UploadCheck ==
  /\ pc = "upload_id"
  /\ IF ~Truthy(docId)
     THEN Raise(PipelineError(Prefix(variant, pipe), "upload", "protocol", res))
     ELSE pc' = "trigger" /\ UNCHANGED exc
  /\ res' = None
  /\ UNCHANGED <<req, docId, taskId, resultId, now, deadline, ret, trace>>
  /\ UNCHANGED history
  /\ UNCHANGED pipeFrame

\* -------------------------------------------------------- step 2: trigger

\* res = await axios.post(endpoint, { documentId [, compressionLevel] }, ...)
TriggerCall ==
  /\ pc = "trigger"
  /\ Call("trigger", docId)
  /\ pc' = "trigger_wait"
  /\ UNCHANGED <<res, docId, taskId, resultId, now, deadline, ret, exc, served, pollSeen>>
  /\ UNCHANGED pipeFrame

\* Mutant of TriggerFail: a failed trigger call is retried.
TriggerFail_Retries ==
  /\ pc = "trigger_wait"
  /\ req' = None
  /\ pc' = "trigger"
  /\ UNCHANGED <<res, docId, taskId, resultId, now, deadline, ret, exc, trace>>
  /\ UNCHANGED history
  /\ UNCHANGED pipeFrame

\* catch (err) { throw new Error(`... Create-PDF failed / Compress task failed ...`) }
TriggerFail ==
  /\ pc = "trigger_wait"
  /\ req' = None
  /\ Raise(PipelineError(Prefix(variant, pipe), "trigger", "transport", None))
  /\ UNCHANGED <<res, docId, taskId, resultId, now, deadline, ret, trace>>
  /\ UNCHANGED history
  /\ UNCHANGED pipeFrame

TriggerRespond ==
  /\ pc = "trigger_wait"
  /\ \E body \in TriggerBodies : res' = body
  /\ req' = None
  /\ pc' = "trigger_got"
  /\ UNCHANGED <<docId, taskId, resultId, now, deadline, ret, exc, trace>>
  /\ UNCHANGED history
  /\ UNCHANGED pipeFrame

\* const taskId = res.data?.taskId ?? res.data?.id ?? res.data?.data?.taskId
TriggerExtract ==
  /\ pc = "trigger_got"
  /\ taskId' = ExtractTaskId(res)
  /\ pc' = "trigger_id"
  /\ UNCHANGED <<req, res, docId, resultId, now, deadline, ret, exc, trace>>
  /\ UNCHANGED history
  /\ UNCHANGED pipeFrame

\* Mutant of TriggerCheck: the task identifier is returned unchecked.
TriggerCheck_Unchecked ==
  /\ pc = "trigger_id"
  /\ pc' = "poll_enter"
  /\ res' = None
  /\ UNCHANGED <<req, docId, taskId, resultId, now, deadline, ret, exc, trace>>
  /\ UNCHANGED history
  /\ UNCHANGED pipeFrame

\* if (!taskId) throw ...; return taskId
TriggerCheck ==
  /\ pc = "trigger_id"
  /\ IF ~Truthy(taskId)
     THEN Raise(PipelineError(Prefix(variant, pipe), "trigger", "protocol", res))
     ELSE pc' = "poll_enter" /\ UNCHANGED exc
  /\ res' = None
  /\ UNCHANGED <<req, docId, taskId, resultId, now, deadline, ret, trace>>
  /\ UNCHANGED history
  /\ UNCHANGED pipeFrame

\* ------------------------------------------------------ step 3: pollTask

\* Mutant of PollDecision: only COMPLETED ends the loop; FAILED is polled again.
PollDecision_FailedKeepsPolling(body) ==
  IF body.t # "object" THEN "type_error"
  ELSE IF body.status = Str("COMPLETED")
       THEN (IF Truthy(body.resultDocumentId) THEN "return" ELSE "protocol")
  ELSE "sleep"

\* Mutant of PollDecision: COMPLETED without a result identifier is polled again.
PollDecision_CompletedWaitsForResult(body) ==
  IF body.t # "object" THEN "type_error"
  ELSE IF body.status = Str("COMPLETED") /\ Truthy(body.resultDocumentId) THEN "return"
  ELSE IF body.status = Str("FAILED") THEN "task_failed"
  ELSE "sleep"

\* Mutant of PollDecision: COMPLETED returns resultDocumentId without looking at it.
PollDecision_CompletedUnchecked(body) ==
  IF body.t # "object" THEN "type_error"
  ELSE IF body.status = Str("COMPLETED") THEN "return"
  ELSE IF body.status = Str("FAILED") THEN "task_failed"
  ELSE "sleep"

\* Mutant of PollDecision: the status is compared without regard to case, and a
\* status that is not known fails the task.
PollDecision_KnownStatusesOnly(body) ==
  IF body.t # "object" THEN "type_error"
  ELSE IF body.status \in {Str("COMPLETED"), Str("completed")}
       THEN (IF Truthy(body.resultDocumentId) THEN "return" ELSE "protocol")
  ELSE IF body.status = Str("FAILED") THEN "task_failed"
  ELSE IF body.status \in {Str("PENDING"), Str("RUNNING")} THEN "sleep"
  ELSE "task_failed"

\* What the loop body does with a poll response body:
\*   const { status, progress, resultDocumentId } = res.data;
\*   if (status === 'COMPLETED') { if (!resultDocumentId) throw ...; return resultDocumentId }
\*   if (status === 'FAILED') throw ...;
\*   await sleep(POLL_INTERVAL_MS)
PollDecision(body) ==
  IF body.t # "object" THEN "type_error"
  ELSE IF body.status = Str("COMPLETED")
       THEN (IF Truthy(body.resultDocumentId) THEN "return" ELSE "protocol")
  ELSE IF body.status = Str("FAILED") THEN "task_failed"
  ELSE "sleep"

\* Mutant of JsonStringify: only the status is put into the message.
JsonStringify_StatusOnly(body) == [status |-> body.status]

\* JSON.stringify(res.data) of a poll response body: every field the body holds,
\* with its value (a field holding undefined is a field the body does not have)
JsonStringify(body) ==
  [f \in {g \in DOMAIN body \ {"t"} : body[g] # Undefined} |-> body[f]]

\* How a poll result counts for the history of the running pollTask.
PollKind(body) ==
  IF body.t # "object" THEN "null"
  ELSE IF body.status \in {Str("COMPLETED"), Str("FAILED")} THEN body.status.s
  ELSE "nonterminal"

\* const deadline = Date.now() + POLL_TIMEOUT_MS
PollTaskEnter ==
  /\ pc = "poll_enter"
  /\ deadline' = Deadline(now)
  /\ pc' = "loop"
  /\ UNCHANGED <<req, res, docId, taskId, resultId, now, ret, exc, trace>>
  /\ UNCHANGED history
  /\ UNCHANGED pipeFrame

\* while (Date.now() < deadline) { res = await axios.get(`${BASE}/tasks/${taskId}`, ...)
\* and, when the condition is false, the throw after the loop (Timed out after 120s)
LoopCheck ==
  /\ pc = "loop"
  /\ IF LoopCond(now, deadline)
     THEN /\ Call("poll", taskId)
          /\ pc' = "poll_wait"
          /\ UNCHANGED exc
     ELSE /\ Raise(PipelineError(Prefix(variant, pipe), "poll", "timeout", None))
          /\ UNCHANGED <<req, trace, endpoints>>
  /\ UNCHANGED <<res, docId, taskId, resultId, now, deadline, ret, served, pollSeen>>
  /\ UNCHANGED pipeFrame

\* Mutant of PollFail: a failed poll request is swallowed and polled again after the sleep.
PollFail_Retries ==
  /\ pc = "poll_wait"
  /\ \E lat \in PollLatencies : now' = now + lat
  /\ req' = None
  /\ pollSeen' = pollSeen \cup {"transport"}
  /\ trace' = Append(trace, "sleep")
  /\ pc' = "sleep"
  /\ UNCHANGED <<res, docId, taskId, resultId, deadline, ret, exc, endpoints, served>>
  /\ UNCHANGED pipeFrame

\* catch (err) { throw new Error(`... Poll failed ...`) }: network error, non-2xx,
\* or the 15 s per-call timeout
PollFail ==
  /\ pc = "poll_wait"
  /\ \E lat \in PollLatencies : now' = now + lat
  /\ req' = None
  /\ pollSeen' = pollSeen \cup {"transport"}
  /\ Raise(PipelineError(Prefix(variant, pipe), "poll", "transport", None))
  /\ UNCHANGED <<res, docId, taskId, resultId, deadline, ret, trace, endpoints, served>>
  /\ UNCHANGED pipeFrame

\* the poll answers 2xx with some body, after some latency
PollRespond ==
  /\ pc = "poll_wait"
  /\ \E lat \in PollLatencies : now' = now + lat
  /\ \E body \in PollBodies :
       /\ res' = body
       /\ pollSeen' = pollSeen \cup {PollKind(body)}
  /\ req' = None
  /\ pc' = "poll_got"
  /\ UNCHANGED <<docId, taskId, resultId, deadline, ret, exc, trace, endpoints, served>>
  /\ UNCHANGED pipeFrame

\* the rest of the loop body, up to the return, the throw or the start of the sleep
PollCheck ==
  /\ pc = "poll_got"
  /\ LET d == PollDecision(res) IN
       CASE d = "type_error" ->
              /\ Raise(DestructureError)
              /\ UNCHANGED <<resultId, trace>>
         [] d = "protocol" ->
              /\ Raise(PipelineError(Prefix(variant, pipe), "poll", "protocol", None))
              /\ UNCHANGED <<resultId, trace>>
         [] d = "return" ->
              /\ resultId' = res.resultDocumentId
              /\ pc' = "download"
              /\ UNCHANGED <<exc, trace>>
         [] d = "task_failed" ->
              /\ Raise(PipelineError(Prefix(variant, pipe), "poll", "task_failed",
                                     JsonStringify(res)))
              /\ UNCHANGED <<resultId, trace>>
         [] OTHER ->
              /\ trace' = Append(trace, "sleep")
              /\ pc' = "sleep"
              /\ UNCHANGED <<resultId, exc>>
  /\ res' = None
  /\ UNCHANGED <<req, docId, taskId, now, deadline, ret>>
  /\ UNCHANGED history
  /\ UNCHANGED pipeFrame

\* Mutant of Sleep: the timer is set to half the interval.
Sleep_HalfInterval ==
  /\ pc = "sleep"
  /\ now' = now + (POLL_INTERVAL_MS \div 2)
  /\ pc' = "loop"
  /\ UNCHANGED <<req, res, docId, taskId, resultId, deadline, ret, exc, trace>>
  /\ UNCHANGED history
  /\ UNCHANGED pipeFrame

\* sleep(POLL_INTERVAL_MS): the timer fires and the loop condition is next
Sleep ==
  /\ pc = "sleep"
  /\ now' = now + POLL_INTERVAL_MS
  /\ pc' = "loop"
  /\ UNCHANGED <<req, res, docId, taskId, resultId, deadline, ret, exc, trace>>
  /\ UNCHANGED history
  /\ UNCHANGED pipeFrame

\* ------------------------------------------------------- step 4: download

\* Mutant of DownloadCall: the uploaded document is downloaded, not the result.
DownloadCall_FetchesUploaded ==
  /\ pc = "download"
  /\ Call("download", docId)
  /\ pc' = "download_wait"
  /\ UNCHANGED <<res, docId, taskId, resultId, now, deadline, ret, exc, served, pollSeen>>
  /\ UNCHANGED pipeFrame

\* res = await axios.get(`${BASE}/documents/${resultDocumentId}/download`, ...)
DownloadCall ==
  /\ pc = "download"
  /\ Call("download", resultId)
  /\ pc' = "download_wait"
  /\ UNCHANGED <<res, docId, taskId, resultId, now, deadline, ret, exc, served, pollSeen>>
  /\ UNCHANGED pipeFrame

\* catch (err) { throw new Error(`... Download failed ...`) }
DownloadFail ==
  /\ pc = "download_wait"
  /\ req' = None
  /\ Raise(PipelineError(Prefix(variant, pipe), "download", "transport", None))
  /\ UNCHANGED <<res, docId, taskId, resultId, now, deadline, ret, trace>>
  /\ UNCHANGED history
  /\ UNCHANGED pipeFrame

\* the download answers 2xx with the raw bytes
DownloadRespond ==
  /\ pc = "download_wait"
  /\ \E body \in Buffers :
       /\ res' = body
       /\ served' = [served EXCEPT ![pipe] = body]
  /\ req' = None
  /\ pc' = "download_got"
  /\ UNCHANGED <<docId, taskId, resultId, now, deadline, ret, exc, trace, endpoints, pollSeen>>
  /\ UNCHANGED pipeFrame

\* const buf = Buffer.from(res.data); return buf   (and the pipeline returns it)
DownloadReturn ==
  /\ pc = "download_got"
  /\ ret' = res
  /\ res' = None
  /\ pc' = "returned"
  /\ UNCHANGED <<req, docId, taskId, resultId, now, deadline, exc, trace>>
  /\ UNCHANGED history
  /\ UNCHANGED pipeFrame

\* ------------------------------------------------------------ specification

Next ==
  \/ HandleRequest
  \/ Render
  \/ Stage1Call
  \/ UploadCall
  \/ UploadFail
  \/ UploadRespond
  \/ UploadExtract
  \/ UploadCheck
  \/ TriggerCall
  \/ TriggerFail
  \/ TriggerRespond
  \/ TriggerExtract
  \/ TriggerCheck
  \/ PollTaskEnter
  \/ LoopCheck
  \/ PollFail
  \/ PollRespond
  \/ PollCheck
  \/ Sleep
  \/ DownloadCall
  \/ DownloadFail
  \/ DownloadRespond
  \/ DownloadReturn
  \/ Stage1Return
  \/ Stage1Catch
  \/ Stage2Call
  \/ Stage2Return
  \/ PluginStage2Catch
  \/ ServiceStage2Catch
  \/ SendPdf
  \/ SendError

Spec == Init /\ [][Next]_vars

\* ------------------------------------------------------------------ claims

Settled == pc \in {"resolved", "rejected", "responded"}

\* The optimization pipeline was entered and ended without a download served.
OptFailed == pipe = "optimization" /\ served["optimization"] = None /\ Settled

\* The conversion pipeline was entered and ended without a download served.
ConvFailed == pipe = "conversion" /\ served["conversion"] = None /\ Settled

\* C1: plugin orchestrator: when the conversion pipeline succeeded and the
\* optimization pipeline failed (at whichever step, with whichever error), the
\* promise resolves (nothing is thrown to the caller) with exactly the bytes the
\* conversion pipeline downloaded.
C1_FallbackReturnsConversionBytes ==
  (variant = "plugin" /\ OptFailed /\ Settled)
    => /\ outcome = Resolved(served["conversion"])
       /\ served["conversion"] # None

C1_Witness ==
  /\ variant = "plugin"
  /\ OptFailed
  /\ pc = "resolved"
  /\ warning.t = "Error"
  /\ warning.kind = "task_failed"
  /\ outcome = Resolved(Buf(MaxBytesLen))

\* C2: HTTP service: every request whose conversion stage succeeded is answered
\* with a PDF body -- the optimized bytes when the optimization succeeded, the
\* conversion bytes when it failed -- and never with an error response.
C2_AlwaysPdfAfterConversion ==
  (variant = "service" /\ pc = "responded" /\ initialPdf # None)
    => /\ response.t = "pdf"
       /\ response.body = (IF served["optimization"] # None
                           THEN served["optimization"] ELSE initialPdf)

\* C3: both orchestrators: when the conversion pipeline fails, the promise is
\* rejected with an error naming stage 1, and no endpoint of the optimization
\* service is ever called in that invocation (an optimization call is issued
\* only when the conversion's download has succeeded).
C3_ConversionFailureAborts ==
  /\ (ConvFailed /\ Settled)
       => /\ outcome.t = "rejected"
          /\ outcome.error.what = "Stage 1 failed"
          /\ outcome.error.cause.t \in {"Error", "TypeError"}
  /\ \A step \in {"upload", "trigger", "poll", "download"} :
       (<<"optimization", step>> \in endpoints) => served["conversion"] # None
  /\ pipe = "optimization" => served["conversion"] # None

C3_Witness ==
  /\ ConvFailed
  /\ pc = "rejected"
  /\ outcome.error.cause.kind = "timeout"
  /\ endpoints = {<<"conversion", "upload">>, <<"conversion", "trigger">>,
                  <<"conversion", "poll">>}

\* C4: when both pipelines succeed, the promise resolves with exactly the bytes
\* the optimization pipeline downloaded, whatever the sizes of the two payloads.
C4_ReturnsOptimizedBytes ==
  (Settled /\ served["optimization"] # None)
    => outcome = Resolved(served["optimization"])

\* the optimized payload is larger than the conversion payload and is returned
C4_Witness ==
  /\ Settled
  /\ served["optimization"] # None
  /\ Len(served["optimization"].bytes) > Len(initialPdf.bytes)
  /\ outcome = Resolved(served["optimization"])

IsCall(e) == e # "sleep"

\* The remote calls of the running pipeline, in the order they were issued.
Calls == SelectSeq(trace, IsCall)

\* C5: in every pipeline run the remote calls occur in the order upload, trigger,
\* one or more polls, download; upload, trigger and download are issued at most
\* once (upload only as the first call, trigger only as the second, download
\* only as the last); a step is issued only after the previous one returned successfully (its
\* handle is in hand and no other request is in flight); and the pipeline
\* returns bytes only after a successful download, namely the bytes served.
C5_StrictStepOrder ==
  LET c == Calls
      n == Len(c)
  IN /\ \A i \in 1..n :
          /\ c[i] = "upload" => i = 1
          /\ c[i] = "trigger" => i = 2 /\ c[1] = "upload"
          /\ c[i] = "poll" => i >= 3 /\ c[i - 1] \in {"trigger", "poll"}
          /\ c[i] = "download" => i >= 4 /\ c[i - 1] = "poll" /\ i = n
     /\ (n >= 2 /\ c[2] = "trigger") => Truthy(docId)
     /\ (n >= 3 /\ c[3] = "poll") => Truthy(taskId)
     /\ (n >= 1 /\ c[n] = "download") => Truthy(resultId) /\ "COMPLETED" \in pollSeen
     /\ req # None => req.step = c[n]
     /\ (pc = "returned" \/ ret # None)
          => /\ c[n] = "download"
             /\ served[pipe] # None
             /\ ret = served[pipe]

\* a run with several polls that returned bytes
C5_Witness ==
  /\ pc = "returned"
  /\ pipe = "optimization"
  /\ Calls = <<"upload", "trigger", "poll", "poll", "poll", "download">>
  /\ ret = Buf(1)

\* No candidate field of an upload response body holds a non-empty identifier.
NoDocumentId(body) ==
  /\ ~Truthy(Get(body, "documentId"))
  /\ ~Truthy(Get(body, "id"))
  /\ ~Truthy(Get(Get(body, "data"), "documentId"))

C6_Step ==
  (pc = "upload_id" /\ NoDocumentId(res))
    => /\ pc' = "raised"
       /\ exc' = PipelineError(Prefix(variant, pipe), "upload", "protocol", res)
       /\ trace' = trace

C6_State ==
  /\ (pc = "upload_id" /\ NoDocumentId(res)) => ~Truthy(docId)
  /\ (pc = "raised" /\ exc.t = "Error" /\ exc.step = "upload")
       => trace = <<"upload">> /\ req = None

\* C6: when the upload succeeds at transport level but no candidate field of the
\* response holds an identifier, the next step of the pipeline is the protocol
\* error of the upload step, and the failed pipeline has issued the upload call
\* only: no trigger, poll or download.
C6_NoIdentifierAborts == []C6_State /\ [][C6_Step]_vars

C6_Witness ==
  /\ pc = "raised"
  /\ exc.t = "Error"
  /\ exc.step = "upload"
  /\ exc.kind = "protocol"
  /\ exc.detail = [t |-> "object", documentId |-> Undefined, id |-> Undefined,
                   data |-> [t |-> "object", documentId |-> Str("")]]
  /\ trace = <<"upload">>

\* C7: once a poll has returned status FAILED, pollTask throws the remote-task
\* error as its very next step: the history of the pipeline ends with that poll
\* (no sleep, no further poll, no download is ever added) until the pipeline
\* function has thrown to the orchestrator, whatever remains of the timeout budget.
C7_FailedStopsAtOnce ==
  ("FAILED" \in pollSeen)
    => /\ trace[Len(trace)] = "poll"
       /\ pc \in {"poll_got", "raised"}
       /\ pc = "poll_got" => res.status = Str("FAILED")
       /\ pc = "raised" => exc = PipelineError(Prefix(variant, pipe), "poll", "task_failed",
                                               exc.detail)
                           /\ exc.detail.status = Str("FAILED")
       /\ pollSeen \subseteq {"nonterminal", "FAILED"}

\* FAILED on a later poll, long before the deadline
C7_Witness ==
  /\ pc = "raised"
  /\ "FAILED" \in pollSeen
  /\ exc.kind = "task_failed"
  /\ trace = <<"upload", "trigger", "poll", "sleep", "poll">>
  /\ now + POLL_INTERVAL_MS < deadline

\* pollTask has been entered and is over.
PollTaskOver ==
  /\ deadline > 0
  /\ pc \in {"raised", "download", "download_wait", "download_got", "returned"}

C9_NoResultAfterDeadline ==
  (pc = "download" /\ Truthy(resultId)) => now <= deadline

\* The three tolerated shapes of an upload response carrying identifier v alone.
TopLevelDocumentId(v) ==
  [t |-> "object", documentId |-> v, id |-> Undefined, data |-> Undefined]
TopLevelId(v) ==
  [t |-> "object", documentId |-> Undefined, id |-> v, data |-> Undefined]
NestedDocumentId(v) ==
  [t |-> "object", documentId |-> Undefined, id |-> Undefined,
   data |-> [t |-> "object", documentId |-> v]]
ShapesOf(v) == {TopLevelDocumentId(v), TopLevelId(v), NestedDocumentId(v)}

C10_State ==
  \A v \in IdStrings :
    (pc = "upload_id" /\ res \in ShapesOf(v)) => docId = v

C10_Step ==
  \A v \in IdStrings :
    (pc = "upload_id" /\ res \in ShapesOf(v))
      => pc' = "trigger" /\ docId' = v /\ exc' = None

\* C10: an upload response carrying identifier v in exactly one of the three
\* tolerated shapes makes the upload step extract v and return v, whichever of
\* the three shapes carries it.
C10_ShapeIndependent == []C10_State /\ [][C10_Step]_vars

\* the identifier arrives in the nested shape and is extracted
C10_Witness ==
  /\ pc = "upload_id"
  /\ pipe = "optimization"
  /\ res = NestedDocumentId(Str(IdNames[NumIds]))
  /\ docId = Str(IdNames[NumIds])

\* The first of the candidate fields documentId, id, data.documentId of an upload
\* response body that holds a non-empty identifier; Undefined when none does.
FirstUsableDocumentId(body) ==
  IF Truthy(Get(body, "documentId")) THEN Get(body, "documentId")
  ELSE IF Truthy(Get(body, "id")) THEN Get(body, "id")
  ELSE IF Truthy(Get(Get(body, "data"), "documentId"))
       THEN Get(Get(body, "data"), "documentId")
  ELSE Undefined

\* C11: the upload step takes the first candidate field (documentId, id,
\* data.documentId) that holds a non-empty identifier, and it fails with the
\* protocol error if and only if none of the three holds one, also when several
\* candidate fields are present in the response.
C11_FirstUsableCandidate ==
  /\ (pc = "upload_id" /\ ~NoDocumentId(res)) => docId = FirstUsableDocumentId(res)
  /\ (pc = "upload_id" /\ NoDocumentId(res)) => ~Truthy(docId)
  /\ (pc = "raised" /\ exc.t = "Error" /\ exc.step = "upload" /\ exc.kind = "protocol")
       => NoDocumentId(exc.detail)

\* No candidate field of a trigger response body holds a non-empty identifier.
NoTaskId(body) ==
  /\ ~Truthy(Get(body, "taskId"))
  /\ ~Truthy(Get(body, "id"))
  /\ ~Truthy(Get(Get(body, "data"), "taskId"))

C12_Step ==
  (pc = "trigger_id" /\ NoTaskId(res))
    => /\ pc' = "raised"
       /\ exc' = PipelineError(Prefix(variant, pipe), "trigger", "protocol", res)
       /\ trace' = trace

C12_State ==
  /\ (pc = "trigger_id" /\ NoTaskId(res)) => ~Truthy(taskId)
  /\ (pc = "raised" /\ exc.t = "Error" /\ exc.step = "trigger")
       => trace = <<"upload", "trigger">> /\ req = None /\ deadline = 0

\* C12: when the trigger call succeeds at transport level but none of taskId, id,
\* data.taskId of the response holds an identifier, the next step of the pipeline
\* is the protocol error of the trigger step, and the failed pipeline has issued
\* the upload and the trigger call only: pollTask is never entered, no poll and
\* no download is issued.
C12_NoTaskIdAborts == []C12_State /\ [][C12_Step]_vars

C12_Witness ==
  /\ pc = "raised"
  /\ exc.t = "Error"
  /\ exc.step = "trigger"
  /\ exc.kind = "protocol"
  /\ exc.detail = [t |-> "object", taskId |-> Str(""), id |-> Undefined,
                   data |-> [t |-> "object", taskId |-> Undefined]]
  /\ trace = <<"upload", "trigger">>

\* A poll response with status COMPLETED and no usable resultDocumentId.
CompletedWithoutResult(body) ==
  /\ body.t = "object"
  /\ body.status = Str("COMPLETED")
  /\ ~Truthy(body.resultDocumentId)

C13_Step ==
  (pc = "poll_got" /\ CompletedWithoutResult(res))
    => /\ pc' = "raised"
       /\ exc' = PipelineError(Prefix(variant, pipe), "poll", "protocol", None)
       /\ trace' = trace
       /\ resultId' = Undefined

C13_State ==
  /\ (pc = "raised" /\ exc.t = "Error" /\ exc.step = "poll" /\ exc.kind = "protocol")
       => /\ trace[Len(trace)] = "poll"
          /\ \A i \in 1..Len(trace) : trace[i] # "download"
          /\ req = None
          /\ "COMPLETED" \in pollSeen
  /\ (\E i \in 1..Len(trace) : trace[i] = "download") => Truthy(resultId)

\* C13: when a poll answers with status COMPLETED but without a result document
\* identifier (absent or empty), the next step of pollTask is the protocol error
\* of the poll step; the history of the failed pipeline ends with that poll (no
\* sleep and no further poll after it) and holds no download, and a download is
\* only ever issued with a non-empty result identifier.
C13_CompletedWithoutResultAborts == []C13_State /\ [][C13_Step]_vars

\* COMPLETED with an empty resultDocumentId on the second poll
C13_Witness ==
  /\ pc = "raised"
  /\ exc.t = "Error"
  /\ exc.step = "poll"
  /\ exc.kind = "protocol"
  /\ trace = <<"upload", "trigger", "poll", "sleep", "poll">>
  /\ now < deadline

\* C14: once a poll request has failed at transport level (network error,
\* non-2xx, per-call timeout), pollTask has thrown the poll-transport error and
\* the pipeline run is over: its history ends with the failed poll (no retry, no
\* sleep, no download), no request is in flight, and this holds whether or not
\* the polling deadline has been reached.
C14_PollTransportFailureAborts ==
  ("transport" \in pollSeen)
    => /\ pc = "raised"
       /\ exc = PipelineError(Prefix(variant, pipe), "poll", "transport", None)
       /\ trace[Len(trace)] = "poll"
       /\ \A i \in 1..Len(trace) : trace[i] # "download"
       /\ req = None
       /\ pollSeen \subseteq {"nonterminal", "transport"}

\* the third poll fails at once, long before the deadline
C14_Witness ==
  /\ pc = "raised"
  /\ "transport" \in pollSeen
  /\ exc.kind = "transport"
  /\ trace = <<"upload", "trigger", "poll", "sleep", "poll", "sleep", "poll">>
  /\ now + POLL_REQUEST_TIMEOUT_MS < deadline

Steps == {"upload", "trigger", "poll", "download"}

\* C15: every failure of a pipeline run is raised as an error that carries the
\* prefix of the pipeline's client and names exactly one of the four steps,
\* whatever the bodies of the remote responses (null bodies included).
C15_EveryFailureNamesItsStep ==
  (pc = "raised")
    => /\ exc.t = "Error"
       /\ exc.prefix = Prefix(variant, pipe)
       /\ exc.step \in Steps

\* The event loop runs every continuation that is ready: each remote call carries
\* an axios timeout, so each await settles, and each timer fires.
FairSpec == Spec /\ WF_vars(Next)

C16_State ==
  /\ (response # None) <=> (pc = "responded")
  /\ (response # None) => variant = "service"
  /\ (response # None /\ response.t = "pdf")
       => /\ response.status = 200
          /\ outcome.t = "resolved"
          /\ response.body = outcome.value
          /\ response.body \in Buffers
          /\ response.body = served["optimization"]
  /\ (response # None /\ response.t # "pdf")
       => /\ response.t = "json"
          /\ response.status \in {400, 500}
          /\ response.status = 400 => ~Truthy(characterName) /\ outcome = None /\ endpoints = {}
          /\ response.status = 500 => outcome.t = "rejected" /\ response.error = outcome.error

\* a response is sent only when none has been sent, and it ends the handling
C16_Step ==
  (response' # response) => (response = None /\ pc' = "responded")

NumRuns == 2
\* Iterations of the poll loop before the deadline has passed: every iteration
\* ends with a sleep of POLL_INTERVAL_MS, so there are at most
\* POLL_TIMEOUT_MS / POLL_INTERVAL_MS of them.
MaxPolls == 2

Runs == 1..NumRuns

NoHandle == <<>>

\* the handle the remote returns to invocation i in answer to its request `step`
FreshHandle(i, step) == <<i, step>>

\* the frame of an invocation that has just been called
FreshRun ==
  [pc |-> "upload", documentId |-> NoHandle, taskId |-> NoHandle,
   resultDocumentId |-> NoHandle, polls |-> 0, req |-> None, got |-> {},
   notStarted |-> {}]

ConcInit ==
  /\ variant \in Variants
  /\ characterName = SomeName
  /\ pc = "concurrent"
  /\ pipe = "conversion"
  /\ filledHtml = None
  /\ initialPdf = None
  /\ input = None
  /\ req = None
  /\ res = None
  /\ docId = Undefined
  /\ taskId = Undefined
  /\ resultId = Undefined
  /\ now = 0
  /\ deadline = 0
  /\ ret = None
  /\ exc = None
  /\ outcome = None
  /\ warning = None
  /\ response = None
  /\ trace = <<>>
  /\ endpoints = {}
  /\ served = [p \in Pipes |-> None]
  /\ pollSeen = {}
  /\ runs = [i \in Runs |-> FreshRun]
  /\ nextHandle = 0
  /\ timers = <<>>
  /\ moduleState = ModuleBindings
  /\ env = ValidEnv
  /\ template = None
  /\ data = None
  /\ again = None
  /\ server = None

\* The variables of the single-invocation view, untouched here.
singleVars == <<variant, characterName, pc, pipe, filledHtml, initialPdf, input, req, res,
                docId, taskId, resultId, now, deadline, ret, exc, outcome, warning,
                response, trace, endpoints, served, pollSeen, template, data, again, server>>

\* Mutant of Blocking: sleep busy-waits instead of awaiting a timer.
Blocking_SleepBusyWaits == {"sleep"}

\* The positions at which an invocation keeps the thread while it waits. Every
\* wait of the client is an await (of an axios promise, or of the setTimeout
\* promise returned by sleep), so there is none.
Blocking == {}

\* Invocation i can run its next piece of code: no other invocation holds the thread.
ThreadFree(i) == \A j \in Runs \ {i} : runs[j].pc \notin Blocking

\* The step of invocation i ends: only its own frame changes.
CFrame(i, frame) ==
  /\ runs' = [runs EXCEPT ![i] = frame]
  /\ moduleState' = moduleState
  /\ UNCHANGED <<env, singleVars>>

\* axios.post / axios.get issued by invocation i with the handle it passes
CRequest(step, handle) == [t |-> "request", step |-> step, arg |-> handle]

\* const documentId = await uploadHtml(html)   (the call)
CUploadCall(i) ==
  /\ ThreadFree(i)
  /\ runs[i].pc = "upload"
  /\ CFrame(i, [runs[i] EXCEPT !.pc = "upload_wait",
                               !.req = CRequest("upload", NoHandle)])
  /\ UNCHANGED <<nextHandle, timers>>

\* ... the upload answers with a fresh document handle
CUploadReturn(i) ==
  /\ ThreadFree(i)
  /\ runs[i].pc = "upload_wait"
  /\ nextHandle' = nextHandle + 1
  /\ CFrame(i, [runs[i] EXCEPT !.pc = "trigger", !.req = None,
                               !.documentId = FreshHandle(i, "upload"),
                               !.got = @ \cup {FreshHandle(i, "upload")}])
  /\ UNCHANGED timers

\* const taskId = await createPdfTask(documentId)   (the call)
CTriggerCall(i) ==
  /\ ThreadFree(i)
  /\ runs[i].pc = "trigger"
  /\ CFrame(i, [runs[i] EXCEPT !.pc = "trigger_wait",
                               !.req = CRequest("trigger", runs[i].documentId)])
  /\ UNCHANGED <<nextHandle, timers>>

\* ... the trigger answers with a fresh task handle; pollTask is entered
CTriggerReturn(i) ==
  /\ ThreadFree(i)
  /\ runs[i].pc = "trigger_wait"
  /\ nextHandle' = nextHandle + 1
  /\ CFrame(i, [runs[i] EXCEPT !.pc = "loop", !.req = None,
                               !.taskId = FreshHandle(i, "trigger"),
                               !.got = @ \cup {FreshHandle(i, "trigger")}])
  /\ UNCHANGED timers

\* Mutant of CPollCall: the task polled is one that another invocation may have
\* triggered, as if taskId were kept in a module-level variable.
CPollCall_LatestTask(i) ==
  /\ ThreadFree(i)
  /\ runs[i].pc = "loop"
  /\ runs[i].polls < MaxPolls
  /\ LET owners == {j \in Runs : runs[j].taskId # NoHandle}
         latest == runs[CHOOSE j \in owners : \A k \in owners : k <= j].taskId
     IN CFrame(i, [runs[i] EXCEPT !.pc = "poll_wait", !.polls = @ + 1,
                                  !.req = CRequest("poll", latest)])
  /\ UNCHANGED <<nextHandle, timers>>

\* while (Date.now() < deadline) { res = await axios.get(`${BASE}/tasks/${taskId}`, ...)
CPollCall(i) ==
  /\ ThreadFree(i)
  /\ runs[i].pc = "loop"
  /\ runs[i].polls < MaxPolls
  /\ CFrame(i, [runs[i] EXCEPT !.pc = "poll_wait", !.polls = @ + 1,
                               !.req = CRequest("poll", runs[i].taskId)])
  /\ UNCHANGED <<nextHandle, timers>>

\* the loop condition is false: throw new Error(`... Timed out ...`)
CTimeout(i) ==
  /\ ThreadFree(i)
  /\ runs[i].pc = "loop"
  /\ runs[i].polls >= MaxPolls
  /\ CFrame(i, [runs[i] EXCEPT !.pc = "failed"])
  /\ UNCHANGED <<nextHandle, timers>>

\* the poll answers with a non-terminal status: await sleep(POLL_INTERVAL_MS)
\* registers a timer and yields
CPollPending(i) ==
  /\ ThreadFree(i)
  /\ runs[i].pc = "poll_wait"
  /\ timers' = Append(timers, i)
  /\ CFrame(i, [runs[i] EXCEPT !.pc = "sleep", !.req = None,
                               !.notStarted = {j \in Runs : runs[j].pc = "upload"}])
  /\ UNCHANGED nextHandle

\* the poll answers COMPLETED with a fresh result handle: return resultDocumentId
CPollCompleted(i) ==
  /\ ThreadFree(i)
  /\ runs[i].pc = "poll_wait"
  /\ nextHandle' = nextHandle + 1
  /\ CFrame(i, [runs[i] EXCEPT !.pc = "download", !.req = None,
                               !.resultDocumentId = FreshHandle(i, "poll"),
                               !.got = @ \cup {FreshHandle(i, "poll")}])
  /\ UNCHANGED timers

\* the timer of the oldest pending sleep fires (equal delays fire in order)
CSleepEnd(i) ==
  /\ ThreadFree(i)
  /\ runs[i].pc = "sleep"
  /\ timers # <<>>
  /\ Head(timers) = i
  /\ timers' = Tail(timers)
  /\ CFrame(i, [runs[i] EXCEPT !.pc = "loop", !.notStarted = {}])
  /\ UNCHANGED nextHandle

\* const pdfBuffer = await downloadResult(resultDocumentId)   (the call)
CDownloadCall(i) ==
  /\ ThreadFree(i)
  /\ runs[i].pc = "download"
  /\ CFrame(i, [runs[i] EXCEPT !.pc = "download_wait",
                               !.req = CRequest("download", runs[i].resultDocumentId)])
  /\ UNCHANGED <<nextHandle, timers>>

\* ... the download answers: return pdfBuffer
CDownloadReturn(i) ==
  /\ ThreadFree(i)
  /\ runs[i].pc = "download_wait"
  /\ CFrame(i, [runs[i] EXCEPT !.pc = "done", !.req = None])
  /\ UNCHANGED <<nextHandle, timers>>

\* the request in flight fails (transport error, no usable handle in the
\* response, FAILED task): the step throws and the invocation is over
CCallFail(i) ==
  /\ ThreadFree(i)
  /\ runs[i].pc \in {"upload_wait", "trigger_wait", "poll_wait", "download_wait"}
  /\ CFrame(i, [runs[i] EXCEPT !.pc = "failed", !.req = None])
  /\ UNCHANGED <<nextHandle, timers>>

\* one step of invocation i
CStep(i) ==
  \/ CUploadCall(i)
  \/ CUploadReturn(i)
  \/ CTriggerCall(i)
  \/ CTriggerReturn(i)
  \/ CPollCall(i)
  \/ CTimeout(i)
  \/ CPollPending(i)
  \/ CPollCompleted(i)
  \/ CSleepEnd(i)
  \/ CDownloadCall(i)
  \/ CDownloadReturn(i)
  \/ CCallFail(i)

ConcNext == \E i \in Runs : CStep(i)

ConcSpec == ConcInit /\ [][ConcNext]_vars

\* The event loop runs every continuation that is ready and fires every timer.
ConcFairSpec == ConcSpec /\ \A i \in Runs : WF_vars(CStep(i))

\* C17: in every interleaving of concurrent invocations, each trigger, poll and
\* download request of an invocation carries the handle held in that
\* invocation's own frame, which was returned to that invocation; with the
\* remote handing out fresh handles, no handle returned to one invocation is
\* ever passed by another (a task of one is never polled by another); and the
\* module-level bindings of the client stay as they were at load time.
C17_HandlesStayWithTheirInvocation ==
  /\ \A i \in Runs :
       /\ (runs[i].req # None /\ runs[i].req.step # "upload")
            => /\ runs[i].req.arg \in runs[i].got
               /\ \A j \in Runs \ {i} : runs[i].req.arg \notin runs[j].got
       /\ (runs[i].req # None /\ runs[i].req.step = "trigger")
            => runs[i].req.arg = runs[i].documentId
       /\ (runs[i].req # None /\ runs[i].req.step = "poll")
            => runs[i].req.arg = runs[i].taskId
       /\ (runs[i].req # None /\ runs[i].req.step = "download")
            => runs[i].req.arg = runs[i].resultDocumentId
  /\ moduleState = ModuleBindings

\* two polls in flight at once, the second poll of one invocation and the first
\* of another, each of its own task
C17_Witness ==
  /\ runs[1].req # None
  /\ runs[2].req # None
  /\ runs[1].req.step = "poll"
  /\ runs[2].req.step = "poll"
  /\ runs[1].polls = 2
  /\ runs[2].polls = 1
  /\ runs[1].req.arg = runs[1].taskId
  /\ runs[2].req.arg = runs[2].taskId
  /\ runs[1].taskId # runs[2].taskId

Over(i) == runs[i].pc \in {"done", "failed"}

\* while invocation i sleeps, every other invocation that has code ready to run
\* or a request in flight can take its next step
C18_State ==
  \A i \in Runs : \A j \in Runs \ {i} :
    (runs[i].pc = "sleep" /\ ~Over(j) /\ runs[j].pc # "sleep") => ENABLED CStep(j)

\* C18: an invocation suspended in its poll sleep does not hold the thread: at
\* every moment another invocation that is not itself asleep or over can take
\* its next step (issue a request, receive a response), and under fair
\* scheduling of the event loop every invocation runs to its end, whatever the
\* others do.
C18_SleepDoesNotBlock ==
  /\ []C18_State
  /\ \A i \in Runs : <>Over(i)

\* invocation 2 ran from its first call to its return while invocation 1 was
\* in one and the same sleep
C18_Witness ==
  /\ runs[1].pc = "sleep"
  /\ 2 \in runs[1].notStarted
  /\ runs[2].pc = "done"
  /\ runs[2].polls = 1

C19_State ==
  /\ (pipe = "none") => endpoints = {}
  /\ (pipe = "conversion")
       => \A step \in Steps : <<"optimization", step>> \notin endpoints
  /\ (pipe = "optimization")
       => /\ <<"conversion", "download">> \in endpoints
          /\ served["conversion"] # None
          /\ initialPdf = served["conversion"]
          /\ input \in {None, served["conversion"]}
  /\ (req # None)
       => /\ req.pipe = pipe
          /\ (req.pipe = "optimization" /\ req.step = "upload")
               => req.arg = served["conversion"]

\* a pipeline is entered from the orchestrator only: the conversion first, the
\* optimization after it, neither a second time
C19_Step ==
  (pc' = "upload")
    => \/ pipe = "none" /\ pipe' = "conversion" /\ pc = "stage1"
       \/ pipe = "conversion" /\ pipe' = "optimization" /\ pc = "stage2"

\* C19: within one orchestrator invocation the two pipelines run one after the
\* other and each at most once: no endpoint of the optimization service is
\* called while the conversion pipeline runs, the optimization pipeline is
\* entered only after the conversion's download has returned, a request in
\* flight belongs to the pipeline that runs, and the payload of the
\* optimization's upload is exactly the bytes the conversion pipeline returned.
C19_PipelinesInSequence == []C19_State /\ [][C19_Step]_vars

\* the optimization's upload in flight, carrying the conversion's bytes
C19_Witness ==
  /\ req # None
  /\ req.pipe = "optimization"
  /\ req.step = "upload"
  /\ req.arg = Buf(MaxBytesLen)
  /\ served["conversion"] = Buf(MaxBytesLen)

\* ------------------------------------------------------------------ startup
\*
\* Loading the module of one pipeline client (the conversion or the optimization
\* client of the JavaScript service or of the TypeScript plugin) under some
\* configuration, followed by the first remote call of a pipeline run.

NotLoaded == [t |-> "not_loaded"]

StartupInit ==
  /\ variant \in Variants
  /\ characterName = SomeName
  /\ pc = "load"
  /\ pipe \in Pipes
  /\ filledHtml = None
  /\ initialPdf = None
  /\ input = None
  /\ req = None
  /\ res = None
  /\ docId = Undefined
  /\ taskId = Undefined
  /\ resultId = Undefined
  /\ now = 0
  /\ deadline = 0
  /\ ret = None
  /\ exc = None
  /\ outcome = None
  /\ warning = None
  /\ response = None
  /\ trace = <<>>
  /\ endpoints = {}
  /\ served = [p \in Pipes |-> None]
  /\ pollSeen = {}
  /\ runs = <<>>
  /\ nextHandle = 0
  /\ timers = <<>>
  /\ moduleState = NotLoaded
  /\ env \in Envs
  /\ template = None
  /\ data = None
  /\ again = None
  /\ server = None

\* What loading a module leaves alone.
loadFrame == <<variant, characterName, pipe, filledHtml, initialPdf, input, req, res, docId,
               taskId, resultId, now, deadline, ret, outcome, warning, response, trace,
               endpoints, served, pollSeen, runs, nextHandle, timers, env, template,
               data, again, server>>

\* new Error(`${prefix} ${name} is not set`)
ConfigError(prefix, name) ==
  [t |-> "Error", prefix |-> prefix, step |-> "startup", kind |-> "config", detail |-> name]

\* JavaScript clients, at module load:
\*   if (!FOXIT_X_BASE_URL) throw ...; if (!FOXIT_X_CLIENT_ID) throw ...;
\*   if (!FOXIT_X_CLIENT_SECRET) throw ...; const BASE = ...; const AUTH_HEADERS = ...
LoadJsClient ==
  /\ variant = "service"
  /\ pc = "load"
  /\ IF ~TruthyText(env.BASE_URL)
     THEN /\ exc' = ConfigError(Prefix(variant, pipe), "BASE_URL")
          /\ pc' = "startup_failed"
          /\ UNCHANGED moduleState
     ELSE IF ~TruthyText(env.CLIENT_ID)
     THEN /\ exc' = ConfigError(Prefix(variant, pipe), "CLIENT_ID")
          /\ pc' = "startup_failed"
          /\ UNCHANGED moduleState
     ELSE IF ~TruthyText(env.CLIENT_SECRET)
     THEN /\ exc' = ConfigError(Prefix(variant, pipe), "CLIENT_SECRET")
          /\ pc' = "startup_failed"
          /\ UNCHANGED moduleState
     ELSE /\ moduleState' = Bind(env)
          /\ pc' = "upload"
          /\ UNCHANGED exc
  /\ UNCHANGED loadFrame

\* TypeScript plugin clients, at module load:
\*   const BASE = (process.env.FOXIT_X_BASE_URL || "").replace(/\/$/, "");
\*   const AUTH_HEADERS = { client_id: process.env.FOXIT_X_CLIENT_ID || "", client_secret: ... || "" }
LoadTsClient ==
  /\ variant = "plugin"
  /\ pc = "load"
  /\ moduleState' = Bind([BASE_URL |-> OrEmpty(env.BASE_URL),
                          CLIENT_ID |-> OrEmpty(env.CLIENT_ID),
                          CLIENT_SECRET |-> OrEmpty(env.CLIENT_SECRET)])
  /\ pc' = "upload"
  /\ UNCHANGED exc
  /\ UNCHANGED loadFrame

StartupNext ==
  \/ LoadJsClient
  \/ LoadTsClient
  \/ UploadCall

StartupSpec == StartupInit /\ [][StartupNext]_vars

\* Some value of the client's configuration is unset or empty.
ConfigAbsent ==
  \/ ~TruthyText(env.BASE_URL)
  \/ ~TruthyText(env.CLIENT_ID)
  \/ ~TruthyText(env.CLIENT_SECRET)

\* C20: a pipeline client whose base URL, client identifier or client secret is
\* unset or empty fails when its module is loaded and never issues a remote
\* call; this holds for the JavaScript clients and for the TypeScript plugin
\* clients alike.
C20_AbsentConfigFailsAtStartup ==
  ConfigAbsent
    => /\ pc \in {"load", "startup_failed"}
       /\ moduleState = NotLoaded
       /\ req = None
       /\ endpoints = {}

\* ---------------------------------------------------- claims C21 and later

\* the stage an error rejected by generateConversationReport identifies
StageOf(e) ==
  IF e.t # "Error" THEN "none"
  ELSE IF e.what = "Failed to read HTML template" THEN "render"
  ELSE IF e.what = "Stage 1 failed" THEN "conversion"
  ELSE IF e.what = "Stage 2 failed" THEN "optimization"
  ELSE "none"

\* C21: whenever generateConversationReport fails, the error it rejects with is
\* an orchestrator-level stage error identifying one of the stages render,
\* conversion and optimization, also when the failure happened while the
\* template was read or interpolated.
C21_EveryFailureNamesItsStage ==
  (outcome # None /\ outcome.t = "rejected")
    => StageOf(outcome.error) \in {"render", "conversion", "optimization"}

\* the wrapper's words for the stage of pipeline p
StageWords(p) == IF p = "conversion" THEN "Stage 1 failed" ELSE "Stage 2 failed"

\* the rejection carries a pipeline's error
PipelineFailure ==
  outcome # None /\ outcome.t = "rejected" /\ outcome.error.cause # None

C24_State ==
  PipelineFailure
    => /\ outcome.error.t = "Error"
       /\ outcome.error.prefix = OrchPrefix(variant)
       /\ outcome.error.what = StageWords(pipe)
       /\ outcome.error.cause.t \in {"Error", "TypeError"}
       /\ DOMAIN outcome.error.cause = DOMAIN DestructureError
       /\ (response # None) => response.error = outcome.error

C24_Step ==
  (pc = "raised" /\ pc' = "rejected")
    => outcome' = Rejected(OrchError(variant, StageWords(pipe), exc))

\* C24: an error raised inside a pipeline that reaches the orchestrator's
\* caller is wrapped exactly once, at the catch around the pipeline call: the
\* caller sees one stage-identifying prefix followed by the message of the
\* pipeline's error as it was raised, and the HTTP handler passes that message
\* on as it is.
C24_WrappedOnce == []C24_State /\ [][C24_Step]_vars

\* the service answers 500 with the wrapped error of a FAILED optimization task
C24_Witness ==
  /\ variant = "service"
  /\ pc = "responded"
  /\ PipelineFailure
  /\ response.status = 500
  /\ response.error.what = "Stage 2 failed"
  /\ response.error.cause.kind = "task_failed"
  /\ response.error.cause.prefix = Prefix("service", "optimization")

\* a poll of the running pollTask has observed COMPLETED or FAILED
TerminalSeen == pollSeen \cap {"COMPLETED", "FAILED"} # {}

\* a poll in flight addresses the task of the running pipeline, for which no
\* terminal status has been observed
C25_State ==
  (req # None /\ req.step = "poll")
    => /\ req.pipe = pipe
       /\ req.arg = taskId
       /\ ~TerminalSeen

\* once a terminal status has been observed, no step issues a poll or sleeps
C25_Step ==
  TerminalSeen
    => /\ ~(req' # None /\ req'.step = "poll")
       /\ (trace' # trace /\ trace' # <<>>) => trace' = Append(trace, "download")

FieldsOf(body) == {f \in DOMAIN body \ {"t"} : body[f] # Undefined}

C27_Step ==
  (pc = "poll_got" /\ res.t = "object" /\ res.status = Str("FAILED"))
    => /\ pc' = "raised"
       /\ exc'.kind = "task_failed"
       /\ DOMAIN exc'.detail = FieldsOf(res)
       /\ \A f \in FieldsOf(res) : exc'.detail[f] = res[f]

C27_State ==
  (pc = "raised" /\ exc.t = "Error" /\ exc.kind = "task_failed")
    => /\ "status" \in DOMAIN exc.detail
       /\ exc.detail.status = Str("FAILED")

\* C27: when a poll answers with status FAILED, the error pollTask throws next
\* carries the whole body of that response: every field the remote returned,
\* with its value, and nothing else; not only the status.
C27_FailedCarriesPayload == []C27_State /\ [][C27_Step]_vars

\* the error of a FAILED response that also held a result document identifier
C27_Witness ==
  /\ pc = "raised"
  /\ exc.t = "Error"
  /\ exc.kind = "task_failed"
  /\ DOMAIN exc.detail = {"status", "resultDocumentId"}
  /\ exc.detail.resultDocumentId = Str("id-1")

\* what a request in flight carries and addresses
C28_State ==
  req # None
    => /\ req.pipe = pipe
       /\ req.step = "upload" => req.arg = input
       /\ req.step = "trigger" => req.arg = docId /\ Truthy(docId)
       /\ req.step = "poll"
            => /\ req.arg = taskId /\ Truthy(taskId)
               /\ req.url = moduleState.BASE.chars \o <<"/", "tasks", "/", taskId.s>>
       /\ req.step = "download"
            => /\ req.arg = resultId /\ Truthy(resultId)
               /\ req.url = moduleState.BASE.chars
                              \o <<"/", "documents", "/", resultId.s, "/", "download">>

\* where the handles come from, and that a run keeps them as they are
C28_Step ==
  /\ (pc = "upload_got") => docId' = ExtractDocumentId(res)
  /\ (pc = "trigger_got") => taskId' = ExtractTaskId(res)
  /\ (pc = "poll_got" /\ pc' = "download")
       => res.status = Str("COMPLETED") /\ resultId' = res.resultDocumentId
  /\ Truthy(docId) => docId' \in {docId, Undefined}
  /\ Truthy(taskId) => taskId' \in {taskId, Undefined}
  /\ Truthy(resultId) => resultId' \in {resultId, Undefined}

\* C28: within one pipeline run the handles flow without substitution: the
\* trigger carries the document identifier taken from the upload response, every
\* poll addresses the task identifier taken from the trigger response, and the
\* download addresses the result document identifier of the COMPLETED poll
\* response (not the identifier of the uploaded input); a handle, once held, is
\* not replaced while the run lasts.
C28_HandlesFlowUnsubstituted == []C28_State /\ [][C28_Step]_vars

\* a download in flight whose result identifier differs from the uploaded
\* document's and from the task's
C28_Witness ==
  /\ req # None
  /\ req.step = "download"
  /\ docId = Str("id-1")
  /\ taskId = Str("id-1")
  /\ resultId = Str("id-2")
  /\ req.url = <<"u", "/", "documents", "/", "id-2", "/", "download">>

IsPoll(e) == e = "poll"

\* The polls of the running pipeline issued so far.
NumPolls == Len(SelectSeq(trace, IsPoll))

\* the shape of the poll loop's history, and the earliest time of the n-th poll
C29_State ==
  /\ \A i \in 1..Len(trace) :
       /\ trace[i] = "poll" => i > 1 /\ trace[i - 1] \in {"trigger", "sleep"}
       /\ trace[i] = "sleep" => i > 1 /\ trace[i - 1] = "poll"
  /\ (req # None /\ req.step = "poll")
       => /\ now >= (deadline - POLL_TIMEOUT_MS) + (NumPolls - 1) * POLL_INTERVAL_MS
          /\ NumPolls = 1 => now = deadline - POLL_TIMEOUT_MS

\* what the clock does from a non-terminal response to the next poll
C29_Step ==
  /\ (pc = "poll_got" /\ pc' = "sleep")
       => PollKind(res) = "nonterminal" /\ now' = now
  /\ (pc = "sleep") => pc' = "loop" /\ now' >= now + POLL_INTERVAL_MS
  /\ (pc = "loop") => now' = now
  /\ (pc = "loop" /\ pc' = "poll_wait")
       => /\ trace' = Append(trace, "poll")
          /\ trace[Len(trace)] \in {"trigger", "sleep"}

\* C29: polling runs on a fixed interval: the first poll is issued when pollTask
\* is entered, with no sleep before it; a poll is followed by a sleep only after
\* a response with a non-terminal status, every later poll follows exactly one
\* sleep, and from such a response to the issue of the next poll at least
\* POLL_INTERVAL_MS elapses (so the n-th poll is issued no sooner than
\* (n - 1) * POLL_INTERVAL_MS after the first).
C29_FixedInterval == []C29_State /\ [][C29_Step]_vars

\* the third poll in flight, issued two intervals after the first and no later
C29_Witness ==
  /\ req # None
  /\ req.step = "poll"
  /\ trace = <<"upload", "trigger", "poll", "sleep", "poll", "sleep", "poll">>
  /\ now = 2 * POLL_INTERVAL_MS

\* The request body holds no characterName, or an empty one.
NameMissing == variant = "service" /\ ~Truthy(characterName)

\* a request without a name never gets past the validation
C30_State ==
  NameMissing
    => /\ pc \in {"request", "responded"}
       /\ data = None
       /\ template = None
       /\ filledHtml = None
       /\ outcome = None
       /\ req = None
       /\ trace = <<>>
       /\ endpoints = {}
       /\ pc = "responded"
            => response = [t |-> "json", status |-> 400, error |-> [t |-> "validation"]]

\* the handler's one step on such a request is the 400 response
C30_Step ==
  (NameMissing /\ pc = "request")
    => /\ pc' = "responded"
       /\ response'.status = 400
       /\ data' = None

\* C30: a POST /api/generate-report whose body holds no characterName, or an
\* empty one, is answered with status 400 and the validation error body, and for
\* such a request neither the report data is extracted nor any remote call of
\* either pipeline issued.
C30_MissingNameRejected == []C30_State /\ [][C30_Step]_vars

\* the 400 response to a request whose characterName is the empty string
C30_Witness ==
  /\ characterName = Str("")
  /\ pc = "responded"
  /\ response.status = 400
  /\ data = None
  /\ endpoints = {}

\* A poll response body whose status is neither exactly COMPLETED nor exactly FAILED.
NonTerminal(body) ==
  body.t = "object" /\ body.status \notin {Str("COMPLETED"), Str("FAILED")}

\* a response of that kind leads to the sleep and nowhere else; the sleep leads
\* to the loop condition, which polls again or raises the timeout
C32_Step ==
  /\ (pc = "poll_got" /\ NonTerminal(res))
       => /\ pc' = "sleep"
          /\ trace' = Append(trace, "sleep")
          /\ UNCHANGED <<exc, resultId, ret>>
  /\ (pc = "sleep") => pc' = "loop" /\ UNCHANGED <<exc, resultId, ret>>
  /\ (pc = "loop")
       => \/ pc' = "poll_wait" /\ req'.step = "poll" /\ req'.arg = taskId
          \/ /\ pc' = "raised"
             /\ exc' = PipelineError(Prefix(variant, pipe), "poll", "timeout", None)

\* a pollTask that saw nothing but such responses is over only with the timeout
C32_State ==
  /\ (PollTaskOver /\ pollSeen = {"nonterminal"})
       => /\ pc = "raised"
          /\ exc.kind = "timeout"
          /\ resultId = Undefined
          /\ ret = None
  /\ Truthy(resultId) => "COMPLETED" \in pollSeen

\* C32: pollTask treats every status other than exactly COMPLETED and exactly
\* FAILED (PENDING, RUNNING, no status, a status in another case) as
\* non-terminal, whatever else the response holds: it sleeps and goes back to
\* the loop condition, which polls again or raises the timeout; a task that only
\* ever reports such statuses ends in the timeout error and never in success.
C32_OtherStatusesAreNonTerminal == []C32_State /\ [][C32_Step]_vars

\* the timeout raised exactly at the deadline, after responses of that kind only
C32_Witness ==
  /\ pc = "raised"
  /\ exc.kind = "timeout"
  /\ pollSeen = {"nonterminal"}
  /\ now = deadline
  /\ resultId = Undefined

\* The timeout error of pollTask has been raised.
TimedOut == pc = "raised" /\ exc.t = "Error" /\ exc.kind = "timeout"

\* C33: in any pipeline run the number of poll requests issued for the task is
\* at most POLL_TIMEOUT_MS / POLL_INTERVAL_MS (40), whatever the latency of the
\* individual polls, and at least one poll has been issued when the timeout
\* error is raised.
C33_PollCountBounds ==
  /\ NumPolls <= POLL_TIMEOUT_MS \div POLL_INTERVAL_MS
  /\ TimedOut => NumPolls >= 1
  /\ NumPolls >= 1 => now >= (NumPolls - 1) * POLL_INTERVAL_MS

\* the timeout after the greatest number of polls, each answered at once
C33_Witness ==
  /\ TimedOut
  /\ NumPolls = 40
  /\ now = POLL_TIMEOUT_MS

\* A pipeline run is over: it returned or it raised.
RunOver == pc \in {"returned", "raised"}

\* how a pipeline run and an orchestrator invocation end
C34_State ==
  /\ pc = "returned" => ret \in Buffers
  /\ pc = "raised" => exc # None
  /\ pc = "resolved" => outcome.t = "resolved" /\ outcome.value \in Buffers
  /\ pc = "rejected" => outcome.t = "rejected"

\* C34: every transport call settling and every timer firing, every pipeline
\* run eventually ends, returning bytes or raising an error, and every
\* orchestrator invocation eventually settles, resolved with bytes or rejected
\* with an error; no sequence of remote answers keeps the poll loop going for
\* ever.
C34_EveryRunTerminates ==
  /\ []C34_State
  /\ <>Settled
  /\ ((pc = "upload") ~> RunOver)

\* an invocation that ended because the conversion task never left RUNNING
C34_Witness ==
  /\ pc = "rejected"
  /\ outcome.error.cause # None
  /\ outcome.error.cause.kind = "timeout"
  /\ pipe = "conversion"

\* ------------------------------------------------- interpolate on its own
\*
\* interpolate applied to a template and a record drawn from bounded sets, and
\* then once more to its own output with the same record.

\* Longest template, in pieces.
MaxPieces == 3
\* Longest list of a record.
MaxListLen == 1

Chars(str) ==
  CASE str = "{{" -> <<"{", "{">>
    [] str = "}}" -> <<"}", "}">>
    [] str = " " -> <<" ">>
    [] str = "{{a}}" -> <<"{", "{", "a", "}", "}">>
    [] str = "{{l[0]}}" -> <<"{", "{", "l", "[", "0", "]", "}", "}">>
    [] str = "{{l[0].f}}" -> <<"{", "{", "l", "[", "0", "]", ".", "f", "}", "}">>
    [] str = "{{l[1].f}}" -> <<"{", "{", "l", "[", "1", "]", ".", "f", "}", "}">>

\* What templates are put together from: the three kinds of token, an index
\* beyond the lists, and text with and without braces.
Pieces == {"{{a}}", "{{l[0]}}", "{{l[0].f}}", "{{l[1].f}}", "{{", "}}", " "}

RECURSIVE Concat(_)
Concat(pieces) ==
  IF pieces = <<>> THEN <<>> ELSE Chars(Head(pieces)) \o Concat(Tail(pieces))

Templates ==
  {Concat(ps) : ps \in UNION {[1..n -> Pieces] : n \in 0..MaxPieces}}

\* a string field: missing, plain text, text that reads as a token
ScalarValues == {Undefined, Text(<<"a">>), Text(Chars("{{a}}"))}

\* a list element: a string, an entry with and without its field, null
ElemValues == {Text(<<"a">>), Obj(Text(<<"f">>)), Obj(Undefined), JsNull}

\* a list field: missing, not a list, or a list of up to MaxListLen elements
ListValues ==
  {Undefined, Text(<<"a">>)}
    \cup {Arr(items) : items \in UNION {[1..n -> ElemValues] : n \in 0..MaxListLen}}

Datas == [a : ScalarValues, l : ListValues]

\* the two copies of interpolate (plugin, service) are the same text
RenderInit ==
  /\ variant = "plugin"
  /\ characterName = SomeName
  /\ pc = "interpolate"
  /\ pipe = "none"
  /\ filledHtml = None
  /\ initialPdf = None
  /\ input = None
  /\ req = None
  /\ res = None
  /\ docId = Undefined
  /\ taskId = Undefined
  /\ resultId = Undefined
  /\ now = 0
  /\ deadline = 0
  /\ ret = None
  /\ exc = None
  /\ outcome = None
  /\ warning = None
  /\ response = None
  /\ trace = <<>>
  /\ endpoints = {}
  /\ served = [p \in Pipes |-> None]
  /\ pollSeen = {}
  /\ runs = <<>>
  /\ nextHandle = 0
  /\ timers = <<>>
  /\ moduleState = ModuleBindings
  /\ env = ValidEnv
  /\ template \in {Text(t) : t \in Templates}
  /\ data \in Datas
  /\ again = None
  /\ server = None

renderFrame == <<variant, characterName, pipe, initialPdf, input, req, res, docId, taskId,
                 resultId, now, deadline, ret, outcome, warning, response, trace,
                 endpoints, served, pollSeen, runs, nextHandle, timers, moduleState,
                 env, template, data, server>>

\* const filledHtml = interpolate(template, data)
InterpolateCall ==
  /\ pc = "interpolate"
  /\ LET r == Interpolate(template.chars, data)
     IN IF r.ok
        THEN /\ filledHtml' = Text(r.out)
             /\ pc' = "interpolated"
             /\ UNCHANGED exc
        ELSE /\ exc' = InterpolateTypeError
             /\ pc' = "threw"
             /\ UNCHANGED filledHtml
  /\ UNCHANGED again
  /\ UNCHANGED renderFrame

\* interpolate(filledHtml, data): the output is interpolated again
InterpolateAgain ==
  /\ pc = "interpolated"
  /\ again' = Interpolate(filledHtml.chars, data)
  /\ pc' = "interpolated_again"
  /\ UNCHANGED <<filledHtml, exc>>
  /\ UNCHANGED renderFrame

RenderNext == InterpolateCall \/ InterpolateAgain

RenderSpec == RenderInit /\ [][RenderNext]_vars

\* interpolate has returned
Interpolated == pc \in {"interpolated", "interpolated_again"}

\* the list element a token with index i addresses, when there is one
InRange(i) == data.l.t = "array" /\ i < Len(data.l.items)

\* C22: for every record and list field, {{list[i]}} is replaced by the i-th
\* element and {{list[i].field}} by that field of the i-th element when
\* 0 <= i < length, and by the empty string when i is out of range, the list is
\* missing or the field is missing; and interpolate never throws, whatever the
\* elements of the list are.
C22_ListTokensResolve ==
  /\ pc # "threw"
  /\ (Interpolated /\ template.chars = Chars("{{l[0]}}"))
       => filledHtml.chars =
            (IF InRange(0) /\ data.l.items[1] # Undefined
             THEN JsString(data.l.items[1]) ELSE <<>>)
  /\ (Interpolated /\ template.chars = Chars("{{l[0].f}}"))
       => filledHtml.chars =
            (IF InRange(0) /\ data.l.items[1].t = "object"
                /\ data.l.items[1].f # Undefined
             THEN data.l.items[1].f.chars ELSE <<>>)
  /\ (Interpolated /\ template.chars = Chars("{{l[1].f}}") /\ ~InRange(1))
       => filledHtml.chars = <<>>

\* a substring of s matches the token grammar
HasToken(s) ==
  \E p \in 1..Len(s) : \E pass \in 1..3 : Match(pass, s, p).ok

\* C23 (as claimed): for every template and every record, the output of
\* interpolate contains no substring matching the token grammar, and
\* interpolating the output again with the same record returns it unchanged.
C23_OutputHasNoToken ==
  /\ Interpolated => ~HasToken(filledHtml.chars)
  /\ (pc = "interpolated_again") => again = Returns(filledHtml.chars)

BraceFree(s) == \A i \in 1..Len(s) : s[i] \notin {"{", "}"}

RECURSIVE TextOutsideTokens(_, _)
\* the text of s from position p on that belongs to no token
TextOutsideTokens(s, p) ==
  IF p > Len(s) THEN <<>>
  ELSE IF \E pass \in 1..3 : Match(pass, s, p).ok
       THEN LET pass == CHOOSE k \in 1..3 : Match(k, s, p).ok
            IN TextOutsideTokens(s, Match(pass, s, p).end)
       ELSE <<s[p]>> \o TextOutsideTokens(s, p + 1)

\* the strings held by record d: its string fields, list elements and their fields
TextsOf(d) ==
  LET items == IF d.l.t = "array" THEN {d.l.items[i] : i \in 1..Len(d.l.items)} ELSE {}
      fields == {e.f : e \in {x \in items : x.t = "object"}}
  IN {v.chars : v \in {x \in {d.a, d.l} \cup items \cup fields : x.t = "text"}}

\* neither the template's text outside its tokens nor a string of the record
\* holds a brace
BraceFreeInputs ==
  /\ BraceFree(TextOutsideTokens(template.chars, 1))
  /\ \A s \in TextsOf(data) : BraceFree(s)

\* C23 (amended): for every template whose text outside its tokens holds no
\* brace and every record whose strings hold no brace, the output of
\* interpolate holds no brace, hence no substring matching the token grammar,
\* and interpolating it again with the same record returns it unchanged.
C23_BraceFreeOutputIsFixed ==
  BraceFreeInputs
    => /\ Interpolated
            => BraceFree(filledHtml.chars) /\ ~HasToken(filledHtml.chars)
       /\ (pc = "interpolated_again") => again = Returns(filledHtml.chars)

\* a template of a scalar token, text and a field token, interpolated twice
C23_Witness ==
  /\ pc = "interpolated_again"
  /\ BraceFreeInputs
  /\ template.chars = Concat(<<"{{a}}", " ", "{{l[0].f}}">>)
  /\ filledHtml.chars = <<"a", " ", "f">>
  /\ again = Returns(filledHtml.chars)

\* ------------------------------------------------------- claims on startup

\* the string the client takes for its base URL: the plugin's `|| ""`
Configured == IF variant = "plugin" THEN OrEmpty(env.BASE_URL) ELSE env.BASE_URL

EndsWithSlash(chars) == Len(chars) > 0 /\ chars[Len(chars)] = "/"

Loaded == moduleState # NotLoaded

\* C26 (as claimed): for every configured base URL string, the base used to
\* build endpoint URLs never ends with "/", so every endpoint URL is the base
\* followed by exactly one "/" and the path.
C26_BaseNeverEndsWithSlash ==
  /\ Loaded => ~EndsWithSlash(moduleState.BASE.chars)
  /\ req # None
       => LET n == Len(moduleState.BASE.chars)
          IN /\ SubSeq(req.url, 1, n) = moduleState.BASE.chars
             /\ req.url[n + 1] = "/"
             /\ req.url[n + 2] # "/"
             /\ (n > 0 => req.url[n] # "/")

\* C26 (amended): the base has one trailing slash stripped: it is the
\* configured string without its last character when that is "/", and the
\* configured string itself otherwise; every endpoint URL is the base followed
\* by "/" and the path; so for every configured string that does not end with
\* two slashes the base does not end with "/" and exactly one "/" stands
\* between base and path.
C26_OneTrailingSlashStripped ==
  /\ Loaded
       => LET c == Configured.chars
              b == moduleState.BASE.chars
          IN /\ IF EndsWithSlash(c) THEN b \o <<"/">> = c ELSE b = c
             /\ (~EndsWithSlash(c) \/ ~EndsWithSlash(SubSeq(c, 1, Len(c) - 1)))
                  => ~EndsWithSlash(b)
  /\ req # None
       => LET b == moduleState.BASE.chars
              n == Len(b)
          IN /\ SubSeq(req.url, 1, n) = b
             /\ req.url[n + 1] = "/"
             /\ req.url[n + 2] = "documents"
             /\ (~EndsWithSlash(b)) => (n > 0 => req.url[n] # "/")

\* the upload of a client configured with a base URL ending in one slash
C26_Witness ==
  /\ env.BASE_URL = Text(<<"u", "/">>)
  /\ Loaded
  /\ moduleState.BASE = Text(<<"u">>)
  /\ req # None
  /\ req.url = <<"u", "/", "documents", "/", "upload">>

\* ----------------------------------------------------------- server startup
\*
\* app.js from its first statement to app.listen: the require of the service
\* module (which requires the two pipeline clients, whose module bodies validate
\* their configuration), the try block around the constructor, and the listen.

\* the process has neither logged a failure, nor exited, nor begun to listen
Running == [log |-> "none", exited |-> FALSE, code |-> 0, listening |-> FALSE]

ServerInit ==
  /\ variant = "service"
  /\ characterName = SomeName
  /\ pc = "require"
  /\ pipe = "conversion"
  /\ filledHtml = None
  /\ initialPdf = None
  /\ input = None
  /\ req = None
  /\ res = None
  /\ docId = Undefined
  /\ taskId = Undefined
  /\ resultId = Undefined
  /\ now = 0
  /\ deadline = 0
  /\ ret = None
  /\ exc = None
  /\ outcome = None
  /\ warning = None
  /\ response = None
  /\ trace = <<>>
  /\ endpoints = {}
  /\ served = [p \in Pipes |-> None]
  /\ pollSeen = {}
  /\ runs = <<>>
  /\ nextHandle = 0
  /\ timers = <<>>
  /\ moduleState = NotLoaded
  /\ env \in Envs
  /\ template = None
  /\ data = None
  /\ again = None
  /\ server = Running

\* What the startup of the server leaves alone.
serverFrame == <<variant, characterName, filledHtml, initialPdf, input, req, res, docId,
                 taskId, resultId, now, deadline, ret, outcome, warning, response, trace,
                 endpoints, served, pollSeen, runs, nextHandle, timers, template,
                 data, again>>

\* if (!FOXIT_X_BASE_URL) throw ...; if (!FOXIT_X_CLIENT_ID) throw ...;
\* if (!FOXIT_X_CLIENT_SECRET) throw ...: the first variable found missing
FirstMissing(e) ==
  IF ~TruthyText(e.BASE_URL) THEN "BASE_URL"
  ELSE IF ~TruthyText(e.CLIENT_ID) THEN "CLIENT_ID"
  ELSE IF ~TruthyText(e.CLIENT_SECRET) THEN "CLIENT_SECRET"
  ELSE "none"

\* const FoxitPdfService = require('./services/FoxitPdfService') (app.js:7), which
\* requires the conversion client and then the optimization client; the body of
\* each client module validates its three variables and throws on the first
\* missing one. The require statement stands outside every try block.
RequireClient ==
  /\ pc = "require"
  /\ IF FirstMissing(env) # "none"
     THEN /\ exc' = ConfigError(Prefix(variant, pipe), FirstMissing(env))
          /\ pc' = "uncaught"
          /\ UNCHANGED <<moduleState, pipe, env>>
     ELSE /\ moduleState' = Bind(env)
          /\ UNCHANGED exc
          /\ IF pipe = "conversion"
             THEN /\ pipe' = "optimization"
                  /\ env' \in Envs
                  /\ pc' = "require"
             ELSE /\ pc' = "construct"
                  /\ UNCHANGED <<pipe, env>>
  /\ UNCHANGED server
  /\ UNCHANGED serverFrame

\* An exception thrown by the main module with no handler installed: the runtime
\* prints it and the process ends with status 1.
UncaughtException ==
  /\ pc = "uncaught"
  /\ server' = [log |-> "uncaught", exited |-> TRUE, code |-> 1, listening |-> FALSE]
  /\ pc' = "exited"
  /\ UNCHANGED <<moduleState, pipe, env, exc>>
  /\ UNCHANGED serverFrame

\* constructor() { super(); }: the constructor validates nothing and throws nothing
NewFoxitPdfService == [ok |-> TRUE]

\* try { foxitPdfService = new FoxitPdfService() }
\* catch (err) { console.error('[startup] Failed to initialise ...'); process.exit(1) }
Construct ==
  /\ pc = "construct"
  /\ IF NewFoxitPdfService.ok
     THEN /\ pc' = "listen"
          /\ UNCHANGED server
     ELSE /\ server' = [log |-> "startup", exited |-> TRUE, code |-> 1, listening |-> FALSE]
          /\ pc' = "exited"
  /\ UNCHANGED <<moduleState, pipe, env, exc>>
  /\ UNCHANGED serverFrame

\* app.listen(PORT, ...)
Listen ==
  /\ pc = "listen"
  /\ server' = [server EXCEPT !.listening = TRUE]
  /\ pc' = "listening"
  /\ UNCHANGED <<moduleState, pipe, env, exc>>
  /\ UNCHANGED serverFrame

ServerNext ==
  \/ RequireClient
  \/ UncaughtException
  \/ Construct
  \/ Listen

ServerSpec == ServerInit /\ [][ServerNext]_vars

\* C31: when a required Foxit environment variable is missing at startup of the
\* server, the error is raised inside the startup try block of app.js (it is
\* never an uncaught exception), the startup handler logs it and the process
\* exits with status 1, and the server never begins to listen.
C31_MissingVariableCaughtAtStartup ==
  /\ pc # "uncaught"
  /\ exc # None => ~server.listening
  /\ server.exited => server.code = 1 /\ server.log = "startup" /\ exc # None

\* ------------------------------------------------------ decodeError on its own
\*
\* decodeError applied to the error an axios call was rejected with: a transport
\* error without a response, or an error carrying the response of a non-2xx
\* answer, whose body axios hands over as a buffer, an ArrayBuffer, a string or
\* a parsed JSON value.

\* the longest binary body
MaxBodyLen == 2

\* the bytes that occur: 'a', and the two bytes of the UTF-8 encoding of e-acute
ByteValues == {97, 195, 169}

ByteSeqs == UNION {[1..n -> ByteValues] : n \in 0..MaxBodyLen}

\* an object that refers to itself
Circular == [t |-> "circular"]

\* err.response.data
Bodies ==
  {[t |-> k, bytes |-> b] : k \in {"buffer", "arraybuffer"}, b \in ByteSeqs}
    \cup {Text(<<>>), Text(<<"a">>)}
    \cup {JsNull, Undefined, Obj(Text(<<"a">>)), Obj(Undefined), Circular}

HttpStatuses == {400, 500}

Messages == {Text(<<>>), Text(<<"t", "i", "m", "e", "o", "u", "t">>)}

\* the errors axios rejects with
AxiosErrors ==
  {[response |-> Undefined, message |-> m] : m \in Messages}
    \cup {[response |-> [t |-> "response", status |-> s, data |-> d],
           message |-> Text(<<"s", "t", "a", "t", "u", "s">>)] :
            s \in HttpStatuses, d \in Bodies}

\* a call that returned a value, a call that threw
Yields(v) == [ok |-> TRUE, value |-> v]
Raises == [ok |-> FALSE, value |-> None]

\* Buffer.from(bytes).toString('utf-8'): a well-formed sequence decodes to its
\* character, a byte that begins or continues no well-formed sequence decodes
\* to the replacement character
RECURSIVE Utf8Decode(_)
Utf8Decode(bytes) ==
  IF bytes = <<>> THEN <<>>
  ELSE IF bytes[1] = 97 THEN <<"a">> \o Utf8Decode(Tail(bytes))
  ELSE IF bytes[1] = 195 /\ Len(bytes) >= 2 /\ bytes[2] = 169
       THEN <<"e-acute">> \o Utf8Decode(Tail(Tail(bytes)))
  ELSE <<"U+FFFD">> \o Utf8Decode(Tail(bytes))

\* JSON.stringify(value): undefined for undefined, the text for a JSON value,
\* a TypeError for a structure that refers to itself
JsonText(v) ==
  IF v = Undefined THEN Yields(Undefined)
  ELSE IF v = JsNull THEN Yields(Text(<<"n", "u", "l", "l">>))
  ELSE IF v = Circular THEN Raises
  ELSE IF v.f = Undefined THEN Yields(Text(<<"{", "}">>))
  ELSE Yields(Text(<<"{", "\"", "f", "\"", ":", "\"">> \o v.f.chars \o <<"\"", "}">>))

\* String(n) of a natural number
RECURSIVE Decimal(_)
Decimal(n) ==
  IF n < 10 THEN <<(<<"0", "1", "2", "3", "4", "5", "6", "7", "8", "9">>)[n + 1]>>
  ELSE Decimal(n \div 10) \o Decimal(n % 10)

\* Mutant of DecodeError: the serialization is not guarded.
DecodeError_NoFallback(err) ==
  IF err.response = Undefined THEN Yields(err.message)
  ELSE LET d == err.response.data
       IN IF d # Undefined /\ d.t \in {"buffer", "arraybuffer"}
          THEN Yields(Text(Utf8Decode(d.bytes)))
          ELSE IF d # Undefined /\ d.t = "text" THEN Yields(d)
          ELSE JsonText(d)

\* function decodeError(err) {
\*   if (!err.response) return err.message;
\*   try { if (Buffer.isBuffer(data) || data instanceof ArrayBuffer)
\*           return Buffer.from(data).toString('utf-8');
\*         return typeof data === 'string' ? data : JSON.stringify(data); }
\*   catch { return String(err.response.status); } }
DecodeError(err) ==
  IF err.response = Undefined THEN Yields(err.message)
  ELSE LET d == err.response.data
           attempt == IF d # Undefined /\ d.t \in {"buffer", "arraybuffer"}
                      THEN Yields(Text(Utf8Decode(d.bytes)))
                      ELSE IF d # Undefined /\ d.t = "text" THEN Yields(d)
                      ELSE JsonText(d)
       IN IF attempt.ok THEN attempt
          ELSE Yields(Text(Decimal(err.response.status)))

DecodeInit ==
  /\ variant = "service"
  /\ characterName = SomeName
  /\ pc = "decode"
  /\ pipe = "conversion"
  /\ filledHtml = None
  /\ initialPdf = None
  /\ input = None
  /\ req = None
  /\ res = None
  /\ docId = Undefined
  /\ taskId = Undefined
  /\ resultId = Undefined
  /\ now = 0
  /\ deadline = 0
  /\ ret = None
  /\ exc \in AxiosErrors
  /\ outcome = None
  /\ warning = None
  /\ response = None
  /\ trace = <<>>
  /\ endpoints = {}
  /\ served = [p \in Pipes |-> None]
  /\ pollSeen = {}
  /\ runs = <<>>
  /\ nextHandle = 0
  /\ timers = <<>>
  /\ moduleState = ModuleBindings
  /\ env = ValidEnv
  /\ template = None
  /\ data = None
  /\ again = None
  /\ server = None

\* What decodeError leaves alone.
decodeFrame == <<variant, characterName, pipe, filledHtml, initialPdf, input, req, res, docId,
                 taskId, resultId, now, deadline, ret, exc, warning, response, trace,
                 endpoints, served, pollSeen, runs, nextHandle, timers, moduleState,
                 env, template, data, server>>

\* ${decodeError(err)} in the catch of a step
DecodeCall ==
  /\ pc = "decode"
  /\ outcome' = DecodeError(exc)
  /\ pc' = "decoded"
  /\ UNCHANGED again
  /\ UNCHANGED decodeFrame

\* decodeError applied to the same error once more
DecodeAgain ==
  /\ pc = "decoded"
  /\ again' = DecodeError(exc)
  /\ pc' = "decoded_again"
  /\ UNCHANGED outcome
  /\ UNCHANGED decodeFrame

DecodeNext ==
  \/ DecodeCall
  \/ DecodeAgain

DecodeSpec == DecodeInit /\ [][DecodeNext]_vars

Decoded == pc \in {"decoded", "decoded_again"}

\* err.response.data is binary
IsBinary(d) == d # Undefined /\ d.t \in {"buffer", "arraybuffer"}

\* err.response.data is a string
IsString(d) == d # Undefined /\ d.t = "text"

\* C35: decodeError never throws and gives the same result each time it is
\* applied to an error: the error's message when there is no response; the body
\* decoded as UTF-8 text when the body is a buffer or an ArrayBuffer; the body
\* itself when it is a string; otherwise the JSON serialization of the body,
\* and the HTTP status as text when the serialization throws.
C35_DecodeErrorTotal ==
  Decoded
    => /\ outcome.ok
       /\ exc.response = Undefined => outcome.value = exc.message
       /\ exc.response # Undefined
            => LET d == exc.response.data IN
                 /\ IsBinary(d) => outcome.value = Text(Utf8Decode(d.bytes))
                 /\ (IsBinary(d) /\ d.bytes = <<195, 169>>)
                      => outcome.value = Text(<<"e-acute">>)
                 /\ IsString(d) => outcome.value = d
                 /\ (~IsBinary(d) /\ ~IsString(d) /\ JsonText(d).ok)
                      => outcome.value = JsonText(d).value
                 /\ d = JsNull => outcome.value = Text(<<"n", "u", "l", "l">>)
                 /\ d = Circular
                      => outcome.value \in {Text(<<"4", "0", "0">>), Text(<<"5", "0", "0">>)}
       /\ pc = "decoded_again" => again = outcome

\* the status given for a body that cannot be serialized, twice
C35_Witness ==
  /\ pc = "decoded_again"
  /\ exc.response # Undefined
  /\ exc.response.data = Circular
  /\ exc.response.status = 500
  /\ outcome = Yields(Text(<<"5", "0", "0">>))
  /\ again = outcome

====
